---- MODULE Spec2Model ----
(***************************************************************************)
(* A model of the GraphQL front end of WilsonGiese/graphql: the lexical    *)
(* scanner (Tokenize / lexer.nextToken), the recursive-descent parser,     *)
(* the schema Builder and the document validator.                          *)
(*                                                                         *)
(* Code points are integers, so that the range tests of the scanner        *)
(* (r >= '0' && r <= '9') are the tests of the source.  A source text is a *)
(* sequence of code points; a token Value is a sequence of code points.    *)
(***************************************************************************)
EXTENDS Integers, Sequences, FiniteSets, TLC

VARIABLES
    src,          \* scanner: the source text handed to Tokenize
    skip,         \* scanner: Tokenize's ignoreWhitespace argument
    lx,           \* scanner: the lexer struct (reader position, line, column, savedColumn)
    tokens,       \* scanner: Tokenize's result slice
    spans,        \* scanner: per token returned, the reader positions it covers (history)
    lexErr,       \* scanner: the error Tokenize returned
    stage,        \* front end: "lex", "lexed", "parsed", "done", or "idle"
    parseErr,     \* parser: the error parse returned
    theSchema,    \* validator: the Schema handed to validate
    theDocument,  \* validator: the Document handed to validate
    valResult,    \* validator: what validate returned, or that it panicked
    theBuilder,   \* builder: the Builder struct (schema, declaredTypeNames)
    outcome,      \* builder: how the last call of the chain ended
    panicErr,     \* builder: the error the chain panicked with
    visitedKinds, \* builder: the kinds whose loop the last Build ran (history)
    returned,     \* builder: the contents of the Schema when Build returned it (history)
    namesPassed,  \* builder: the names handed to Declare so far (history)
    repeated,     \* builder: a Declare call was handed a name handed over before (history)
    numCalls      \* builder: the number of Declare calls made on the builder

lexVars == <<src, skip, lx, tokens, spans, lexErr>>
frontVars == <<src, skip, lx, tokens, spans, lexErr, stage, parseErr, theSchema,
               theDocument, valResult>>
builderVars == <<theBuilder, outcome, panicErr, visitedKinds, returned, namesPassed,
                 repeated, numCalls>>
vars == <<src, skip, lx, tokens, spans, lexErr, stage, parseErr, theSchema, theDocument,
          valResult, theBuilder, outcome, panicErr, visitedKinds, returned, namesPassed,
          repeated, numCalls>>

-----------------------------------------------------------------------------
(* Code points the scanner dispatches on.                                  *)

Ch ==
    [ tab |-> 9, lf |-> 10, cr |-> 13, sp |-> 32, bang |-> 33, quote |-> 34,
      hash |-> 35, dollar |-> 36, lparen |-> 40, rparen |-> 41, plus |-> 43,
      comma |-> 44, minus |-> 45, dot |-> 46, slash |-> 47, d0 |-> 48,
      d1 |-> 49, d5 |-> 53, d9 |-> 57, colon |-> 58, equals |-> 61, at |-> 64,
      A |-> 65, E |-> 69, F |-> 70, Q |-> 81, Z |-> 90, lbracket |-> 91,
      backslash |-> 92, rbracket |-> 93, underscore |-> 95, a |-> 97,
      b |-> 98, c |-> 99, d |-> 100, e |-> 101, f |-> 102, g |-> 103, i |-> 105,
      k |-> 107, m |-> 109, n |-> 110, o |-> 111, q |-> 113, r |-> 114,
      t |-> 116, u |-> 117, y |-> 121, z |-> 122, lbrace |-> 123, bar |-> 124,
      rbrace |-> 125, bom |-> 65279, maxBMP |-> 65535, smiley |-> 128512 ]

NoErr == "nil"
ErrEOF == "EOF"
errNotEnoughMatchingRunes == "not enough matching runes to read"

\* isPeriod, IsCommentCharacter, isNameCharacter, isStringCharacter,
\* isHexidecimalCharacter, isIntegerCharacter: the rune classes of the scanner.
isPeriod(r) == r = Ch.dot

IsCommentCharacter(r) == (r >= Ch.sp /\ r <= Ch.maxBMP) \/ r = Ch.tab

isNameCharacter(r) ==
    \/ r = Ch.underscore
    \/ (r >= Ch.a /\ r <= Ch.z)
    \/ (r >= Ch.A /\ r <= Ch.Z)
    \/ (r >= Ch.d0 /\ r <= Ch.d9)

isStringCharacter(r) ==
    \/ (r >= Ch.sp /\ r <= Ch.maxBMP /\ r # Ch.quote /\ r # Ch.backslash)
    \/ r = Ch.tab

isHexidecimalCharacter(r) ==
    \/ (r >= Ch.d0 /\ r <= Ch.d9)
    \/ (r >= Ch.a /\ r <= Ch.f)
    \/ (r >= Ch.A /\ r <= Ch.F)

isIntegerCharacter(r) == r >= Ch.d0 /\ r <= Ch.d9

\* The predicate argument of consume / consumeAll, named by its function.
matches(cls, r) ==
    CASE cls = "isPeriod" -> isPeriod(r)
      [] cls = "IsCommentCharacter" -> IsCommentCharacter(r)
      [] cls = "isNameCharacter" -> isNameCharacter(r)
      [] cls = "isStringCharacter" -> isStringCharacter(r)
      [] cls = "isHexidecimalCharacter" -> isHexidecimalCharacter(r)
      [] cls = "isIntegerCharacter" -> isIntegerCharacter(r)

-----------------------------------------------------------------------------
(* The lexer struct and its cursor primitives.  pos is the number of code  *)
(* points the buffered reader has delivered; canUnread is bufio's          *)
(* "the last operation was a successful ReadRune".                         *)

\* beforeRead, unreads and pushbackOk record how the pushback is used: the
\* column before the last readRune, the number of unreadRune calls, and
\* whether each of them came directly after a successful readRune and put
\* line and column back.
newLexer ==
    [pos |-> 0, line |-> 0, column |-> 0, savedColumn |-> 0, canUnread |-> FALSE,
     beforeRead |-> 0, unreads |-> 0, pushbackOk |-> TRUE]

\* An incrementLine that leaves the column where it is.
incrementLineKeepColumn(l) ==
    [l EXCEPT !.line = @ + 1, !.savedColumn = l.column]

incrementLine(l) ==
    [l EXCEPT !.line = @ + 1, !.savedColumn = l.column, !.column = 0]

incrementColumn(l) ==
    [l EXCEPT !.column = @ + 1, !.savedColumn = -1]

undoLastIncrement(l) ==
    IF l.savedColumn = -1
    THEN [l EXCEPT !.column = @ - 1]
    ELSE [l EXCEPT !.line = @ - 1, !.column = l.savedColumn]

\* readRune: the column is incremented before the read, on EOF too.
readRune(s, l) ==
    LET l1 == [incrementColumn(l) EXCEPT !.beforeRead = l.column] IN
    IF l.pos < Len(s)
    THEN [l |-> [l1 EXCEPT !.pos = @ + 1, !.canUnread = TRUE],
          r |-> s[l.pos + 1], err |-> NoErr]
    ELSE [l |-> [l1 EXCEPT !.canUnread = FALSE], r |-> 0, err |-> ErrEOF]

unreadRune(l) ==
    LET l1 == [undoLastIncrement(l) EXCEPT
                    !.unreads = @ + 1,
                    !.pushbackOk = /\ l.pushbackOk
                                   /\ l.canUnread
                                   /\ undoLastIncrement(l).line = l.line
                                   /\ undoLastIncrement(l).column = l.beforeRead] IN
    IF l.canUnread
    THEN [l1 EXCEPT !.pos = @ - 1, !.canUnread = FALSE]
    ELSE l1

\* A peek that unreads whether or not the read succeeded.
peekAlwaysUnread(s, l) ==
    LET unread(rr) == [l |-> unreadRune(rr.l), r |-> rr.r, err |-> rr.err]
    IN  unread(readRune(s, l))

peek(s, l) ==
    LET unread(rr) ==
            IF rr.err = NoErr
            THEN [l |-> unreadRune(rr.l), r |-> rr.r, err |-> NoErr]
            ELSE rr
    IN  unread(readRune(s, l))

RECURSIVE consumeLoop(_, _, _, _, _)
consumeLoop(s, l, n, cls, consumed) ==
    LET read(rr) ==
            IF rr.err = NoErr
            THEN IF ~matches(cls, rr.r)
                 THEN [l |-> rr.l, s |-> Append(consumed, rr.r),
                       err |-> errNotEnoughMatchingRunes]
                 ELSE consumeLoop(s, rr.l, n - 1, cls, Append(consumed, rr.r))
            ELSE [l |-> rr.l, s |-> consumed, err |-> rr.err]
    IN  IF n = 0
        THEN [l |-> l, s |-> consumed, err |-> NoErr]
        ELSE read(readRune(s, l))

consume(s, l, n, cls) == consumeLoop(s, l, n, cls, <<>>)

RECURSIVE consumeAllLoop(_, _, _, _)
consumeAllLoop(s, l, cls, consumed) ==
    LET read(rr) ==
            IF rr.err = NoErr
            THEN IF ~matches(cls, rr.r)
                 THEN [l |-> unreadRune(rr.l), s |-> consumed, err |-> NoErr]
                 ELSE consumeAllLoop(s, rr.l, cls, Append(consumed, rr.r))
            ELSE [l |-> rr.l, s |-> consumed, err |-> NoErr]   \* err == io.EOF
    IN  read(readRune(s, l))

consumeAll(s, l, cls) == consumeAllLoop(s, l, cls, <<>>)

-----------------------------------------------------------------------------
(* Strings.                                                                *)

\* bytes.Buffer.WriteRune followed by String(): a surrogate code point is
\* written as U+FFFD, every other code point of the BMP as itself.
writeRune(r) == IF r >= 55296 /\ r <= 57343 THEN 65533 ELSE r

\* strconv.ParseInt(unicodeHexString, 16, 64) of hexadecimal digits.
hexDigitValue(r) ==
    IF r >= Ch.d0 /\ r <= Ch.d9 THEN r - Ch.d0
    ELSE IF r >= Ch.a /\ r <= Ch.f THEN r - Ch.a + 10
    ELSE r - Ch.A + 10

RECURSIVE parseHex(_)
parseHex(digits) ==
    IF digits = <<>> THEN 0
    ELSE 16 * parseHex(SubSeq(digits, 1, Len(digits) - 1))
         + hexDigitValue(digits[Len(digits)])

escapedCharacterToRune(c) ==
    CASE c = Ch.b -> [r |-> 8, err |-> NoErr]
      [] c = Ch.t -> [r |-> 9, err |-> NoErr]
      [] c = Ch.n -> [r |-> 10, err |-> NoErr]
      [] c = Ch.f -> [r |-> 12, err |-> NoErr]
      [] c = Ch.r -> [r |-> 13, err |-> NoErr]
      [] c = Ch.quote -> [r |-> 34, err |-> NoErr]
      [] c = Ch.backslash -> [r |-> 92, err |-> NoErr]
      [] c = Ch.slash -> [r |-> 47, err |-> NoErr]
      [] OTHER -> [r |-> 0, err |-> "invalid escape character"]

\* Assumes the backslash has been read.
consumeStringEscapeSequence(s, l, value) ==
    LET unicode(hx) ==
            IF hx.err = NoErr
            THEN [l |-> hx.l, value |-> Append(value, writeRune(parseHex(hx.s))),
                  err |-> NoErr]
            ELSE [l |-> hx.l, value |-> value,
                  err |-> "invalid escaped unicode value in String"]
        escaped(rr, ec) ==
            IF ec.err = NoErr
            THEN [l |-> rr.l, value |-> Append(value, writeRune(ec.r)), err |-> NoErr]
            ELSE [l |-> rr.l, value |-> value,
                  err |-> "invalid escape sequence character in String"]
        read(rr) ==
            IF rr.err = NoErr
            THEN IF rr.r = Ch.u
                 THEN unicode(consume(s, rr.l, 4, "isHexidecimalCharacter"))
                 ELSE escaped(rr, escapedCharacterToRune(rr.r))
            ELSE [l |-> rr.l, value |-> value, err |-> "invalid escape sequence in String"]
    IN  read(readRune(s, l))

\* Assumes the opening double quote has been read.
RECURSIVE consumeStringLoop(_, _, _)
consumeStringLoop(s, l, value) ==
    LET sequence(es) ==
            IF es.err # NoErr
            THEN [l |-> es.l, value |-> es.value, err |-> es.err]
            ELSE consumeStringLoop(s, es.l, es.value)
        read(v1, rr) ==
            IF rr.err = NoErr
            THEN IF rr.r = Ch.quote
                 THEN [l |-> rr.l, value |-> v1, err |-> NoErr]
                 ELSE IF rr.r = Ch.backslash
                 THEN sequence(consumeStringEscapeSequence(s, rr.l, v1))
                 ELSE [l |-> rr.l, value |-> v1, err |-> "invalid String"]
            ELSE [l |-> rr.l, value |-> v1, err |-> "invalid String"]
        characters(ca) == read(value \o ca.s, readRune(s, ca.l))
    IN  characters(consumeAll(s, l, "isStringCharacter"))

consumeString(s, l) == consumeStringLoop(s, l, <<>>)

-----------------------------------------------------------------------------
(* Numbers.  consumeNumber is three parts in sequence: the integer part,   *)
(* the fractional part and the exponent part; each hands the lexer, the    *)
(* value buffer and the token type to the next unless it returns.          *)

numResult(l, value, type, err, done) ==
    [l |-> l, value |-> value, type |-> type, err |-> err, done |-> done]

\* The integer part: "-0" is read as a whole; a "-" before a code point that
\* is no digit returns peek's err, which is nil unless the input has ended.
integerPart(s, l, first) ==
    LET digits(ca) == numResult(ca.l, <<first>> \o ca.s, "Integer", NoErr, FALSE)
        peeked(pk) ==
            IF pk.err = NoErr /\ isIntegerCharacter(pk.r)
            THEN IF first = Ch.minus /\ pk.r = Ch.d0
                 THEN numResult(readRune(s, pk.l).l, <<first, pk.r>>, "Integer", NoErr,
                                FALSE)
                 ELSE digits(consumeAll(s, pk.l, "isIntegerCharacter"))
            ELSE IF first = Ch.minus
                 THEN IF pk.err = ErrEOF
                      THEN numResult(pk.l, <<first>>, "Integer", "invalid Integer: -", TRUE)
                      ELSE numResult(pk.l, <<first>>, "Integer", pk.err, TRUE)
                 ELSE numResult(pk.l, <<first>>, "Integer", NoErr, FALSE)
    IN  peeked(peek(s, l))

fractionalPart(s, n) ==
    LET digits(v1, ca) ==
            IF ca.s # <<>>
            THEN numResult(ca.l, v1 \o ca.s, "Float", NoErr, FALSE)
            ELSE numResult(ca.l, v1, n.type, "invalid Float", TRUE)
        peeked(pk) ==
            IF pk.err = NoErr
            THEN IF pk.r = Ch.dot
                 THEN digits(Append(n.value, pk.r),
                             consumeAll(s, readRune(s, pk.l).l, "isIntegerCharacter"))
                 ELSE numResult(pk.l, n.value, n.type, NoErr, FALSE)
            ELSE numResult(pk.l, n.value, n.type, NoErr, FALSE)   \* err == io.EOF
    IN  peeked(peek(s, n.l))

\* An exponentPart that leaves the exponent to the next token.
exponentPartSkipped(s, n) == numResult(n.l, n.value, n.type, NoErr, TRUE)

exponentPart(s, n) ==
    LET digits(v2, ca) ==
            IF ca.s = <<>>
            THEN numResult(ca.l, v2, n.type, "invalid Float", TRUE)
            ELSE numResult(ca.l, v2 \o ca.s, "Float", NoErr, TRUE)
        sign(v1, sg) ==
            IF sg.err # NoErr
            THEN numResult(sg.l, v1, n.type, "invalid Float", TRUE)
            ELSE IF sg.r = Ch.plus \/ sg.r = Ch.minus
            THEN digits(Append(v1, sg.r),
                        consumeAll(s, readRune(s, sg.l).l, "isIntegerCharacter"))
            ELSE digits(v1, consumeAll(s, sg.l, "isIntegerCharacter"))
        peeked(pk) ==
            IF pk.err = NoErr
            THEN IF pk.r = Ch.e \/ pk.r = Ch.E
                 THEN sign(Append(n.value, pk.r), peek(s, readRune(s, pk.l).l))
                 ELSE numResult(pk.l, n.value, n.type, NoErr, TRUE)
            ELSE numResult(pk.l, n.value, n.type, NoErr, TRUE)   \* err == io.EOF
    IN  peeked(peek(s, n.l))

\* Assumes the first rune has been read and is passed as an argument.
consumeNumber(s, l, first) ==
    LET exponent(fp) == IF fp.done THEN fp ELSE exponentPart(s, fp)
        fraction(ip) == IF ip.done THEN ip ELSE exponent(fractionalPart(s, ip))
    IN  fraction(integerPart(s, l, first))

-----------------------------------------------------------------------------
(* nextToken and Tokenize.                                                 *)

Token(type, value, line, columnStart, columnEnd) ==
    [Type |-> type, Value |-> value, Line |-> line,
     ColumnStart |-> columnStart, ColumnEnd |-> columnEnd]

\* The punctuators: one code point, one token.
punctuatorType(r) ==
    CASE r = Ch.lbrace -> "OpenBrace"
      [] r = Ch.rbrace -> "ClosedBrace"
      [] r = Ch.lparen -> "OpenParen"
      [] r = Ch.rparen -> "ClosedParen"
      [] r = Ch.lbracket -> "OpenBracket"
      [] r = Ch.rbracket -> "ClosedBracket"
      [] r = Ch.equals -> "Equals"
      [] r = Ch.bang -> "Exclamation"
      [] r = Ch.dollar -> "Dollar"
      [] r = Ch.colon -> "Colon"
      [] r = Ch.at -> "At"
      [] r = Ch.bar -> "VerticalBar"
      [] OTHER -> "Invalid"

\* The switch of nextToken on the first rune r, read with the lexer at l:
\* the lexer after the token's runes, the token's type and value, the error.
scanToken(s, l, r) ==
    LET scanned(l1, type, value) == [l |-> l1, type |-> type, value |-> value, err |-> NoErr]
        failed(l1, err) == [l |-> l1, type |-> "Invalid", value |-> <<>>, err |-> err]
        spread(c) ==
            IF c.err = NoErr THEN scanned(c.l, "Spread", <<>>)
            ELSE failed(c.l, "expected ... but found")
        carriageReturn(pk) ==
            scanned(IF pk.err = NoErr /\ pk.r = Ch.lf THEN readRune(s, pk.l).l ELSE pk.l,
                    "LineTerminator", <<>>)
        name(c) == scanned(c.l, "Name", <<r>> \o c.s)
        string(c) ==
            IF c.err = NoErr THEN scanned(c.l, "String", c.value) ELSE failed(c.l, c.err)
        number(c) ==
            IF c.err = NoErr THEN scanned(c.l, c.type, c.value) ELSE failed(c.l, c.err)
        comment(c) == scanned(c.l, "Comment", <<>>)
    IN  CASE punctuatorType(r) # "Invalid" -> scanned(l, punctuatorType(r), <<>>)
          [] r = Ch.dot -> spread(consume(s, l, 2, "isPeriod"))
          [] r = Ch.cr -> carriageReturn(peek(s, l))
          [] r = Ch.lf -> scanned(l, "LineTerminator", <<>>)
          [] r = Ch.comma \/ r = Ch.tab \/ r = Ch.sp -> scanned(l, "Whitespace", <<>>)
          [] r = Ch.underscore \/ (r >= Ch.a /\ r <= Ch.z) \/ (r >= Ch.A /\ r <= Ch.Z) ->
                name(consumeAll(s, l, "isNameCharacter"))
          [] r = Ch.quote -> string(consumeString(s, l))
          [] r = Ch.minus \/ (r >= Ch.d0 /\ r <= Ch.d9) -> number(consumeNumber(s, l, r))
          [] r = Ch.hash -> comment(consumeAll(s, l, "IsCommentCharacter"))
          [] r = Ch.bom -> scanned(l, "UnicodeBOM", <<>>)
          [] OTHER -> failed(l, "invalid character")

InvalidToken == Token("Invalid", <<>>, 0, 0, 0)

nextToken(s, l) ==
    LET switch(sc) ==
            IF sc.err # NoErr
            THEN [l |-> sc.l, token |-> InvalidToken, err |-> sc.err]
            ELSE [l |-> IF sc.type = "LineTerminator" THEN incrementLine(sc.l) ELSE sc.l,
                  token |-> Token(sc.type, sc.value, l.line, l.column, sc.l.column - 1),
                  err |-> NoErr]
        read(rr) ==
            IF rr.err # NoErr
            THEN [l |-> rr.l, token |-> Token("EOF", <<>>, l.line, l.column, l.column),
                  err |-> NoErr]
            ELSE switch(scanToken(s, rr.l, rr.r))
    IN  read(readRune(s, l))

\* The test of Tokenize on the token nextToken returned.
keeps(ignoreWhitespace, token) ==
    ~ignoreWhitespace \/ token.Type \notin {"Whitespace", "LineTerminator"}

\* A Tokenize that, asked to ignore whitespace, drops the comments as well.
RECURSIVE TokenizeLoopDroppingComments(_, _, _, _)
TokenizeLoopDroppingComments(s, l, ignoreWhitespace, toks) ==
    LET loop(nt) ==
            IF nt.err # NoErr THEN [tokens |-> toks, err |-> nt.err]
            ELSE IF nt.token.Type = "EOF"
            THEN [tokens |-> Append(toks, nt.token), err |-> NoErr]
            ELSE TokenizeLoopDroppingComments(s, nt.l, ignoreWhitespace,
                    IF keeps(ignoreWhitespace, nt.token)
                       /\ ~(ignoreWhitespace /\ nt.token.Type = "Comment")
                    THEN Append(toks, nt.token) ELSE toks)
    IN  loop(nextToken(s, l))

\* The loop of Tokenize, from the lexer l and the tokens appended so far.
RECURSIVE TokenizeLoop(_, _, _, _)
TokenizeLoop(s, l, ignoreWhitespace, toks) ==
    LET loop(nt) ==
            IF nt.err # NoErr THEN [tokens |-> toks, err |-> nt.err]
            ELSE IF nt.token.Type = "EOF"
            THEN [tokens |-> IF keeps(ignoreWhitespace, nt.token)
                             THEN Append(toks, nt.token) ELSE toks,
                  err |-> NoErr]
            ELSE TokenizeLoop(s, nt.l, ignoreWhitespace,
                    IF keeps(ignoreWhitespace, nt.token)
                    THEN Append(toks, nt.token) ELSE toks)
    IN  loop(nextToken(s, l))

\* Tokenize(r, ignoreWhitespace): the tokens and the error it returns.
Tokenize(s, ignoreWhitespace) == TokenizeLoop(s, newLexer, ignoreWhitespace, <<>>)

-----------------------------------------------------------------------------
(* The source texts.  Every text of at most MaxLen code points over        *)
(* Alphabet, and the texts the specification and the tests name.           *)

MaxLen == 3

Alphabet ==
    { Ch.lbrace, Ch.rbrace, Ch.dot, Ch.cr, Ch.lf, Ch.sp, Ch.a, Ch.e,
      Ch.minus, Ch.d0, Ch.d1, Ch.hash }

RECURSIVE TextsOfLength(_)
TextsOfLength(n) ==
    IF n = 0 THEN {<<>>}
    ELSE {Append(s, c) : s \in TextsOfLength(n - 1), c \in Alphabet}

ShortTexts == UNION {TextsOfLength(n) : n \in 0..MaxLen}

MaxParts == 2

\* The pieces of the body of a String literal: plain code points (a letter,
\* the tab, the space, a line feed, the last code point of the BMP, a code
\* point above it), the eight
\* escapes, two escapes that are none, \u with four hexadecimal digits (Q,
\* e with acute in both cases of the digit, the last code point of the BMP, a
\* surrogate), \u with a digit that is none, \u with two digits, \u alone
\* and the backslash alone.
StringParts ==
    { <<Ch.a>>, <<Ch.tab>>, <<Ch.sp>>, <<Ch.lf>>, <<Ch.maxBMP>>, <<Ch.smiley>> }
    \cup {<<Ch.backslash, c>> :
            c \in {Ch.b, Ch.t, Ch.n, Ch.f, Ch.r, Ch.quote, Ch.backslash, Ch.slash}}
    \cup { <<Ch.backslash, Ch.a>>, <<Ch.backslash, Ch.sp>> }
    \cup { <<Ch.backslash, Ch.u, Ch.d0, Ch.d0, Ch.d5, Ch.d1>>,
           <<Ch.backslash, Ch.u, Ch.d0, Ch.d0, Ch.e, Ch.d9>>,
           <<Ch.backslash, Ch.u, Ch.d0, Ch.d0, Ch.E, Ch.d9>>,
           <<Ch.backslash, Ch.u, Ch.F, Ch.f, Ch.F, Ch.f>>,
           <<Ch.backslash, Ch.u, Ch.d, Ch.F, Ch.F, Ch.F>> }
    \cup { <<Ch.backslash, Ch.u, Ch.d0, Ch.d0, Ch.g, Ch.d0>>,
           <<Ch.backslash, Ch.u, Ch.d0, Ch.d0>>,
           <<Ch.backslash, Ch.u>>,
           <<Ch.backslash>> }

RECURSIVE StringBodies(_)
StringBodies(n) ==
    IF n = 0 THEN {<<>>}
    ELSE StringBodies(n - 1) \cup {b \o p : b \in StringBodies(n - 1), p \in StringParts}

\* An opening quote, a body of at most MaxParts pieces, and the closing
\* quote or the end of the input.
StringTexts ==
    {<<Ch.quote>> \o b \o close : b \in StringBodies(MaxParts), close \in {<<Ch.quote>>, <<>>}}

\* Numbers: an integer part, then nothing, a fractional part or a . without
\* a digit, then nothing, an exponent part or an exponent indicator and sign
\* without a digit, at the end of the input and before another code point.
NumberTexts ==
    {int \o frac \o exp :
        int \in { <<Ch.d1>>, <<Ch.minus, Ch.d1>>, <<Ch.d1, Ch.d0>>, <<Ch.minus, Ch.d0>> },
        frac \in { <<>>, <<Ch.dot>>, <<Ch.dot, Ch.d5>>, <<Ch.dot, Ch.a>> },
        exp \in { <<>>, <<Ch.e>>, <<Ch.e, Ch.d1>>, <<Ch.E, Ch.plus, Ch.d1>>,
                  <<Ch.e, Ch.minus, Ch.d1, Ch.d0>>, <<Ch.e, Ch.minus>>,
                  <<Ch.E, Ch.plus>>, <<Ch.e, Ch.a>>, <<Ch.E, Ch.plus, Ch.a>> }}

\* "{ dog { name } }" and "{ dog { nickname } }"
DogNameText ==
    <<Ch.lbrace, Ch.sp, Ch.d, Ch.o, Ch.g, Ch.sp, Ch.lbrace, Ch.sp,
      Ch.n, Ch.a, Ch.m, Ch.e, Ch.sp, Ch.rbrace, Ch.sp, Ch.rbrace>>

DogNicknameText ==
    <<Ch.lbrace, Ch.sp, Ch.d, Ch.o, Ch.g, Ch.sp, Ch.lbrace, Ch.sp,
      Ch.n, Ch.i, Ch.c, Ch.k, Ch.n, Ch.a, Ch.m, Ch.e, Ch.sp, Ch.rbrace,
      Ch.sp, Ch.rbrace>>

-----------------------------------------------------------------------------
(* The parser.  A Parser is the token slice and the cursor position        *)
(* (0-based, as in the source); every parse function returns the position  *)
(* it leaves the cursor at and the error it panicked with.  parse recovers *)
(* the panic and returns it as the error.                                  *)

QueryWord == <<Ch.q, Ch.u, Ch.e, Ch.r, Ch.y>>
MutationWord == <<Ch.m, Ch.u, Ch.t, Ch.a, Ch.t, Ch.i, Ch.o, Ch.n>>
FragmentWord == <<Ch.f, Ch.r, Ch.a, Ch.g, Ch.m, Ch.e, Ch.n, Ch.t>>

parsed(pos) == [pos |-> pos, err |-> NoErr]
\* unexpected and invalid panic; the error keeps the kind of the message only.
unexpected(pos, actual, expected) == [pos |-> pos, err |-> "Expected ... but found ..."]
invalid(pos, message) == [pos |-> pos, err |-> "invalid: ..."]

parserPeek(toks, pos) == toks[pos + 1]

\* A take that moves the cursor whatever token it is on.
takeUnbounded(toks, pos) == pos + 1

\* take: the cursor stays on the last token.
take(toks, pos) == IF pos # Len(toks) - 1 THEN pos + 1 ELSE pos

expect(toks, pos, t) ==
    IF parserPeek(toks, pos).Type # t
    THEN unexpected(pos, parserPeek(toks, pos).Type, t)
    ELSE parsed(take(toks, pos))

optional(toks, pos, t) ==
    IF parserPeek(toks, pos).Type = t THEN take(toks, pos) ELSE pos

accept(toks, pos, t, values) ==
    LET token == parserPeek(toks, pos) IN
    IF token.Type = t
    THEN IF token.Value \in values
         THEN parsed(take(toks, pos))
         ELSE unexpected(pos, token.Value, values)
    ELSE unexpected(pos, token.Type, values)

\* then(r, F): the next step F runs at r.pos unless r has panicked.
then(r, F(_)) == IF r.err # NoErr THEN r ELSE F(r.pos)

parseSelectionSet(toks, pos) ==
    LET closing(q) == expect(toks, q, "ClosedBrace") IN
    then(expect(toks, pos, "OpenBrace"), closing)

RECURSIVE parseType(_, _)
parseType(toks, pos) ==
    LET bang(q) == parsed(optional(toks, q, "Exclamation"))
        closing(q) == expect(toks, q, "ClosedBracket")
        subType(q) == parseType(toks, q)
        underlying ==   \* _parseType
            IF parserPeek(toks, pos).Type = "OpenBracket"
            THEN then(then(expect(toks, pos, "OpenBracket"), subType), closing)
            ELSE expect(toks, pos, "Name")
    IN  then(underlying, bang)

RECURSIVE parseValue(_, _)
RECURSIVE parseListValueLoop(_, _)
RECURSIVE parseObjectValueLoop(_, _)

parseListValueLoop(toks, pos) ==
    LET again(q) == parseListValueLoop(toks, q) IN
    IF parserPeek(toks, pos).Type = "ClosedBracket"
    THEN expect(toks, pos, "ClosedBracket")
    ELSE then(parseValue(toks, pos), again)

parseListValue(toks, pos) ==
    LET loop(q) == parseListValueLoop(toks, q) IN
    then(expect(toks, pos, "OpenBracket"), loop)

\* object is the nil map of the named result: a lookup in it finds nothing,
\* the assignment object[name.Value] = value panics.
parseObjectValueLoop(toks, pos) ==
    LET colon(q) == expect(toks, q, "Colon")
        value(q) == parseValue(toks, q)
        object == <<>>
        assign(q) ==
            IF parserPeek(toks, pos).Value \in DOMAIN object
            THEN invalid(q, "duplicate field name in object value")
            ELSE [pos |-> q, err |-> "assignment to entry in nil map"]
    IN  IF parserPeek(toks, pos).Type = "ClosedBrace"
        THEN expect(toks, pos, "ClosedBrace")
        ELSE then(then(then(expect(toks, pos, "Name"), colon), value), assign)

parseObjectValue(toks, pos) ==
    LET loop(q) == parseObjectValueLoop(toks, q) IN
    then(expect(toks, pos, "OpenBrace"), loop)

parseValue(toks, pos) ==
    LET token == parserPeek(toks, pos) IN
    CASE token.Type \in {"Name", "String", "Integer", "Float"} -> parsed(take(toks, pos))
      [] token.Type = "OpenBracket" -> parseListValue(toks, pos)
      [] token.Type = "OpenBrace" -> parseObjectValue(toks, pos)
      [] OTHER -> unexpected(pos, token.Type, "Value")

parseVariableDefinition(toks, pos) ==
    LET name(q) == expect(toks, q, "Name")
        colon(q) == expect(toks, q, "Colon")
        type(q) == parseType(toks, q)
        default(q) ==
            IF parserPeek(toks, q).Type = "Equals"
            THEN parseValue(toks, take(toks, q))
            ELSE parsed(q)
    IN  then(then(then(then(expect(toks, pos, "Dollar"), name), colon), type), default)

RECURSIVE parseVariableDefinitionsLoop(_, _)
parseVariableDefinitionsLoop(toks, pos) ==
    LET again(q) == parseVariableDefinitionsLoop(toks, q) IN
    IF parserPeek(toks, pos).Type # "Dollar"
    THEN expect(toks, pos, "ClosedParen")
    ELSE then(parseVariableDefinition(toks, pos), again)

parseVariableDefinitions(toks, pos) ==
    LET loop(q) == parseVariableDefinitionsLoop(toks, q) IN
    then(expect(toks, pos, "OpenParen"), loop)

\* parseDirectives and parseFragment consume nothing.
parseOperation(toks, pos) ==
    LET variables(q) == parseVariableDefinitions(toks, q)
        selectionSet(q) == parseSelectionSet(toks, q)
    IN  then(then(parsed(optional(toks, pos, "Name")), variables), selectionSet)

RECURSIVE parseDefinitions(_, _)
parseDefinitions(toks, pos) ==
    LET again(q) == parseDefinitions(toks, q)
        definition(q) ==
            IF parserPeek(toks, pos).Value = FragmentWord
            THEN parsed(q)
            ELSE parseOperation(toks, q)
    IN  IF parserPeek(toks, pos).Type = "EOF"
        THEN parsed(pos)
        ELSE then(then(accept(toks, pos, "Name", {QueryWord, MutationWord, FragmentWord}),
                       definition), again)

EmptyDocument == [Operations |-> <<>>, Fragments |-> <<>>]

\* parseDocument returns Document{} whatever it has parsed.
parseDocument(toks) ==
    LET eof(q) == expect(toks, q, "EOF")
        r == IF parserPeek(toks, 0).Type = "OpenBrace"
             THEN then(parseSelectionSet(toks, 0), eof)
             ELSE parseDefinitions(toks, 0)
    IN  [pos |-> r.pos, err |-> r.err, document |-> EmptyDocument]

parse(toks) == parseDocument(toks)

-----------------------------------------------------------------------------
(* The schema model.  A map is a function on the set of its keys; a nil    *)
(* pointer is the empty sequence and a pointer to x is <<x>>.              *)

EmptyMap == <<>>

\* The Type struct and the four Describe helpers.
DescribeType(name) ==
    [Name |-> name, NonNull |-> FALSE, List |-> FALSE, SubType |-> <<>>]
DescribeNonNullType(name) ==
    [Name |-> name, NonNull |-> TRUE, List |-> FALSE, SubType |-> <<>>]
DescribeListType(subType) ==
    [Name |-> "", NonNull |-> FALSE, List |-> TRUE, SubType |-> <<subType>>]
DescribeNonNullListType(subType) ==
    [Name |-> "", NonNull |-> TRUE, List |-> TRUE, SubType |-> <<subType>>]

StringType == DescribeType("String")
NonNullStringType == DescribeNonNullType("String")
IntType == DescribeType("Int")
BooleanType == DescribeType("Boolean")
NonNullBooleanType == DescribeNonNullType("Boolean")

\* The declaration structs; kind is the Go type of the value.
Scalar(name) == [kind |-> "Scalar", Name |-> name]
Enum(name, values) == [kind |-> "Enum", Name |-> name, Values |-> values]
Input(name, fields) == [kind |-> "Input", Name |-> name, Fields |-> fields]
Interface(name, fields) == [kind |-> "Interface", Name |-> name, Fields |-> fields]
Object(name, implements, fields) ==
    [kind |-> "Object", Name |-> name, Implements |-> implements, Fields |-> fields]
Union(name, types) == [kind |-> "Union", Name |-> name, Types |-> types]

NoDefault == "nil"
Argument(name, type, default) == [Name |-> name, Type |-> type, Default |-> default]
Field(name, type, arguments) == [Name |-> name, Type |-> type, Arguments |-> arguments]

\* Arguments(...) and Fields(...): the map from Name to the element.
RECURSIVE MapByName(_)
MapByName(elements) ==
    IF elements = <<>> THEN EmptyMap
    ELSE LET rest == MapByName(SubSeq(elements, 1, Len(elements) - 1))
             last == elements[Len(elements)]
         IN  [n \in DOMAIN rest \cup {last.Name} |->
                 IF n = last.Name THEN last ELSE rest[n]]
Arguments(arguments) == MapByName(arguments)
Fields(fields) == MapByName(fields)

newSchema ==
    [enums |-> EmptyMap, inputs |-> EmptyMap, interfaces |-> EmptyMap,
     objects |-> EmptyMap, scalars |-> EmptyMap, unions |-> EmptyMap]

Nil == [kind |-> "nil"]

\* getDeclaration: a list type is unwrapped to its base type.
RECURSIVE getDeclaration(_, _)
getDeclaration(schema, t) ==
    IF t.List THEN getDeclaration(schema, t.SubType[1])
    ELSE IF t.Name \in DOMAIN schema.scalars THEN schema.scalars[t.Name]
    ELSE IF t.Name \in DOMAIN schema.enums THEN schema.enums[t.Name]
    ELSE IF t.Name \in DOMAIN schema.objects THEN schema.objects[t.Name]
    ELSE IF t.Name \in DOMAIN schema.interfaces THEN schema.interfaces[t.Name]
    ELSE IF t.Name \in DOMAIN schema.unions THEN schema.unions[t.Name]
    ELSE IF t.Name \in DOMAIN schema.inputs THEN schema.inputs[t.Name]
    ELSE Nil

\* getObject, getInterface, getUnion: the lookup in one collection.
getObject(schema, name) ==
    IF name \in DOMAIN schema.objects THEN schema.objects[name] ELSE Nil
getInterface(schema, name) ==
    IF name \in DOMAIN schema.interfaces THEN schema.interfaces[name] ELSE Nil
getUnion(schema, name) ==
    IF name \in DOMAIN schema.unions THEN schema.unions[name] ELSE Nil

-----------------------------------------------------------------------------
(* The document validator.  The validator struct is the error list and the *)
(* two name sets; panicked records that a panic has unwound the            *)
(* validation, after which nothing more runs.  An error is the text of its *)
(* format string up to the first verb.                                     *)

SelectionSet(fields, inlineFragments, fragmentSpreads) ==
    [Fields |-> fields, InlineFragments |-> inlineFragments,
     FragmentSpreads |-> fragmentSpreads]
EmptySelectionSet == SelectionSet(<<>>, <<>>, <<>>)
\* Arguments holds the keys of the map of the selected field's arguments.
SelectedField(name, arguments, selectionSet) ==
    [Name |-> name, Arguments |-> arguments, SelectionSet |-> selectionSet]
InlineFragment(type, selectionSet) == [Type |-> type, SelectionSet |-> selectionSet]
FragmentSpread(name) == [Name |-> name]
Fragment(name, type, selectionSet) ==
    [Name |-> name, Type |-> type, SelectionSet |-> selectionSet]
Operation(type, name, selectionSet) ==
    [Type |-> type, Name |-> name, SelectionSet |-> selectionSet]
Document(operations, fragments) == [Operations |-> operations, Fragments |-> fragments]

IsEmpty(selectionSet) ==
    /\ Len(selectionSet.Fields) = 0
    /\ Len(selectionSet.FragmentSpreads) = 0
    /\ Len(selectionSet.InlineFragments) = 0

GetFragment(document, name) ==
    \E i \in DOMAIN document.Fragments : document.Fragments[i].Name = name

newValidator ==
    [errors |-> <<>>, operationNames |-> {}, fragmentNames |-> {}, panicked |-> FALSE]

error(v, e) == [v EXCEPT !.errors = Append(@, e)]
panic(v) == [v EXCEPT !.panicked = TRUE]

\* One error for every supplied argument the field does not declare.
RECURSIVE errorTimes(_, _, _)
errorTimes(v, e, n) == IF n = 0 THEN v ELSE errorTimes(error(v, e), e, n - 1)

\* A validateArguments that stops at the first undeclared argument.
validateArgumentsOnce(v, field, selectedField) ==
    IF v.panicked \/ selectedField.Arguments \subseteq DOMAIN field.Arguments THEN v
    ELSE error(v, "Field Argument error: provided invalid argument")

validateArguments(v, field, selectedField) ==
    IF v.panicked THEN v
    ELSE errorTimes(v, "Field Argument error: provided invalid argument",
                    Cardinality(selectedField.Arguments \ DOMAIN field.Arguments))

RECURSIVE validateFragmentSpreads(_, _, _, _)
validateFragmentSpreads(v, document, spreads, i) ==
    IF v.panicked \/ i > Len(spreads) THEN v
    ELSE validateFragmentSpreads(
            IF GetFragment(document, spreads[i].Name) THEN v
            ELSE error(v, "Fragment Spread error: Fragment is not defined"),
            document, spreads, i + 1)

RECURSIVE validateSelectionSet(_, _, _, _, _)
RECURSIVE validateInlineFragments(_, _, _, _, _)
RECURSIVE validateSelectedFields(_, _, _, _, _, _)

\* validateInterfaceSelectionSet / validateObjectSelectionSet: the loop over
\* selectionSet.Fields; validateField is validateSelectionSet on the field's type.
validateSelectedFields(v, schema, document, declaration, fields, i) ==
    IF v.panicked \/ i > Len(fields) THEN v
    ELSE LET selectedField == fields[i] IN
         validateSelectedFields(
            IF selectedField.Name \in DOMAIN declaration.Fields
            THEN LET actualField == declaration.Fields[selectedField.Name] IN
                 validateArguments(
                    validateSelectionSet(v, schema, document,
                        getDeclaration(schema, actualField.Type),
                        selectedField.SelectionSet),
                    actualField, selectedField)
            ELSE error(v, IF declaration.kind = "Interface"
                          THEN "Field Selection error: Interface type does not contain the field"
                          ELSE "Field Selection error: Object type does not contain the field"),
            schema, document, declaration, fields, i + 1)

validateInlineFragments(v, schema, document, inlineFragments, i) ==
    IF v.panicked \/ i > Len(inlineFragments) THEN v
    ELSE LET declaration == getDeclaration(schema, DescribeType(inlineFragments[i].Type)) IN
         validateInlineFragments(
            IF declaration = Nil
            THEN error(v, "Inline Fragment Spread Type Existence error")
            ELSE validateSelectionSet(v, schema, document, declaration,
                                      inlineFragments[i].SelectionSet),
            schema, document, inlineFragments, i + 1)

\* A validateUnionSelectionSet that lets every field through.
validateUnionFieldsLenient(v, fields, i) == v

\* validateUnionSelectionSet: the loop over selectionSet.Fields.
RECURSIVE validateUnionFields(_, _, _)
validateUnionFields(v, fields, i) ==
    IF i > Len(fields) THEN v
    ELSE validateUnionFields(
            IF fields[i].Name # "__typename"
            THEN error(v, "Field Selection error: cannot select non-metadata field from Union")
            ELSE v,
            fields, i + 1)

validateSelectionSet(v, schema, document, selectionType, selectionSet) ==
    LET fragments(w) ==
            validateFragmentSpreads(
                validateInlineFragments(w, schema, document,
                                        selectionSet.InlineFragments, 1),
                document, selectionSet.FragmentSpreads, 1)
    IN  IF v.panicked THEN v ELSE
        CASE selectionType.kind \in {"Interface", "Object"} ->
                IF IsEmpty(selectionSet)
                THEN error(v, IF selectionType.kind = "Interface"
                              THEN "Field Selection error: Interface type must have a subselection"
                              ELSE "Field Selection error: Object type must have a subselection")
                ELSE fragments(validateSelectedFields(v, schema, document, selectionType,
                                                      selectionSet.Fields, 1))
          [] selectionType.kind = "Union" ->
                IF IsEmpty(selectionSet)
                THEN error(v, "Field Selection error: Union type must have a subselection")
                ELSE fragments(validateUnionFields(v, selectionSet.Fields, 1))
          [] selectionType.kind = "Enum" ->
                IF ~IsEmpty(selectionSet)
                THEN error(v, "Field Selection error: subselection not allowed on Enum")
                ELSE v
          [] selectionType.kind = "Scalar" ->
                IF ~IsEmpty(selectionSet)
                THEN error(v, "Field Selection error: subselection not allowed on Scalar")
                ELSE v
          [] OTHER -> panic(v)    \* panic("unreachable")

\* A validateOperation for which a name is taken only by an operation of the
\* same type.
validateOperationPerType(v, schema, document, operation) ==
    LET v1 == IF operation.Name = "" /\ Len(document.Operations) > 1
              THEN error(v, "Lone Anonymous Operation error")
              ELSE v
        v2 == IF <<operation.Type, operation.Name>> \in v1.operationNames
              THEN error(v1, "Operation Name Uniqueness error")
              ELSE [v1 EXCEPT !.operationNames = @ \cup {<<operation.Type, operation.Name>>}]
    IN  IF v.panicked THEN v
        ELSE IF operation.Type = "query"
        THEN validateSelectionSet(v2, schema, document,
                                  getDeclaration(schema, DescribeType("QueryRoot")),
                                  operation.SelectionSet)
        ELSE v2

\* A validateOperation that checks the selection set of every operation type.
validateOperationEveryType(v, schema, document, operation) ==
    LET v1 == IF operation.Name = "" /\ Len(document.Operations) > 1
              THEN error(v, "Lone Anonymous Operation error")
              ELSE v
        v2 == IF operation.Name \in v1.operationNames
              THEN error(v1, "Operation Name Uniqueness error")
              ELSE [v1 EXCEPT !.operationNames = @ \cup {operation.Name}]
    IN  IF v.panicked THEN v
        ELSE validateSelectionSet(v2, schema, document,
                                  getDeclaration(schema, DescribeType("QueryRoot")),
                                  operation.SelectionSet)

validateOperation(v, schema, document, operation) ==
    LET v1 == IF operation.Name = "" /\ Len(document.Operations) > 1
              THEN error(v, "Lone Anonymous Operation error")
              ELSE v
        v2 == IF operation.Name \in v1.operationNames
              THEN error(v1, "Operation Name Uniqueness error")
              ELSE [v1 EXCEPT !.operationNames = @ \cup {operation.Name}]
    IN  IF v.panicked THEN v
        ELSE IF operation.Type = "query"
        THEN validateSelectionSet(v2, schema, document,
                                  getDeclaration(schema, DescribeType("QueryRoot")),
                                  operation.SelectionSet)
        ELSE v2

validateFragment(v, schema, document, fragment) ==
    LET v1 == IF fragment.Name \in v.fragmentNames
              THEN error(v, "Fragment Name Uniqueness error")
              ELSE [v EXCEPT !.fragmentNames = @ \cup {fragment.Name}]
        declaration == getDeclaration(schema, DescribeType(fragment.Type))
    IN  IF v.panicked THEN v
        ELSE IF declaration = Nil
        THEN error(v1, "Fragment Spread Type Existence error")
        ELSE validateSelectionSet(v1, schema, document, declaration, fragment.SelectionSet)

RECURSIVE validateOperations(_, _, _, _)
validateOperations(v, schema, document, i) ==
    IF i > Len(document.Operations) THEN v
    ELSE validateOperations(validateOperation(v, schema, document, document.Operations[i]),
                            schema, document, i + 1)

RECURSIVE validateFragments(_, _, _, _)
validateFragments(v, schema, document, i) ==
    IF i > Len(document.Fragments) THEN v
    ELSE validateFragments(validateFragment(v, schema, document, document.Fragments[i]),
                           schema, document, i + 1)

\* validate returns v.errors, unless a panic unwinds it.
validate(schema, document) ==
    LET v == validateFragments(validateOperations(newValidator, schema, document, 1),
                               schema, document, 1)
    IN  [errors |-> v.errors, panicked |-> v.panicked]

-----------------------------------------------------------------------------
(* The schema Builder.  A validation function returns the set of errors it *)
(* may raise first: empty when the declaration is valid, one error when    *)
(* the checks run in a fixed order, several where the first error depends  *)
(* on the iteration order of a Go map.  Hang stands for a call that never  *)
(* returns.                                                                *)

Hang == "never returns"

\* The names the model declares that validNameMatcher rejects.
InvalidNames == {"Some Enum With Spaces"}
validNameMatcher(name) == name \notin InvalidNames

validateName(name) ==
    IF name = "" THEN "declared without Name defined"
    ELSE IF ~validNameMatcher(name) THEN "declared with an invalid Name"
    ELSE NoErr

NewBuilder == [schema |-> newSchema, declaredTypeNames |-> {}]

\* declareTypeName without the look-up in declaredTypeNames.
declareTypeNameUnchecked(builder, declaration) ==
    IF validateName(declaration.Name) # NoErr
    THEN [builder |-> builder, err |-> validateName(declaration.Name)]
    ELSE [builder |-> [builder EXCEPT !.declaredTypeNames = @ \cup {declaration.Name}],
          err |-> NoErr]

\* A declareTypeName that records the name before it checks it.
declareTypeNameRecordsFirst(builder, declaration) ==
    [builder |-> [builder EXCEPT !.declaredTypeNames = @ \cup {declaration.Name}],
     err |-> IF validateName(declaration.Name) # NoErr THEN validateName(declaration.Name)
             ELSE IF declaration.Name \in builder.declaredTypeNames
             THEN "declared with name but another type with that name has already been declared"
             ELSE NoErr]

\* A declareTypeName that looks at the structure of an Enum before the name.
declareTypeNameStructureFirst(builder, declaration) ==
    IF declaration.kind = "Enum" /\ declaration.Values = <<>>
    THEN [builder |-> builder, err |-> "delcared without any values defined"]
    ELSE declareTypeNameUnchecked(builder, declaration)

declareTypeName(builder, declaration) ==
    IF validateName(declaration.Name) # NoErr
    THEN [builder |-> builder, err |-> validateName(declaration.Name)]
    ELSE IF declaration.Name \in builder.declaredTypeNames
    THEN [builder |-> builder,
          err |-> "declared with name but another type with that name has already been declared"]
    ELSE [builder |-> [builder EXCEPT !.declaredTypeNames = @ \cup {declaration.Name}],
          err |-> NoErr]

put(map, key, value) == [k \in DOMAIN map \cup {key} |-> IF k = key THEN value ELSE map[k]]

\* Builder.Enum ... Builder.Union, reached through the type switch of Declare.
Declare(builder, declaration) ==
    LET named == declareTypeName(builder, declaration)
        b == named.builder
    IN  IF named.err # NoErr
        THEN [builder |-> b, err |-> named.err]
        ELSE [err |-> NoErr,
              builder |->
                CASE declaration.kind = "Enum" ->
                        [b EXCEPT !.schema.enums = put(@, declaration.Name, declaration)]
                  [] declaration.kind = "Input" ->
                        [b EXCEPT !.schema.inputs = put(@, declaration.Name, declaration)]
                  [] declaration.kind = "Interface" ->
                        [b EXCEPT !.schema.interfaces = put(@, declaration.Name, declaration)]
                  [] declaration.kind = "Object" ->
                        [b EXCEPT !.schema.objects = put(@, declaration.Name, declaration)]
                  [] declaration.kind = "Scalar" ->
                        [b EXCEPT !.schema.scalars = put(@, declaration.Name, declaration)]
                  [] declaration.kind = "Union" ->
                        [b EXCEPT !.schema.unions = put(@, declaration.Name, declaration)]]

\* findFirstDuplicate(values) != nil
hasDuplicate(values) ==
    \E i, j \in DOMAIN values : i < j /\ values[i] = values[j]

validateType(schema, t) ==
    IF ~t.List
    THEN IF getDeclaration(schema, t) = Nil THEN "declared with unknown type" ELSE NoErr
    ELSE IF t.SubType = <<>> THEN "type has nil sub-type"
    ELSE IF t.SubType[1].List THEN Hang     \* actualType = *t.SubType, again and again
    ELSE IF getDeclaration(schema, t.SubType[1]) = Nil THEN "declared with unknown type"
    ELSE NoErr

typeCheck(t1, t2) == t1 = t2

\* covariantTypeCheck without the comparison of the non-null flags.
RECURSIVE covariantTypeCheckAnyNonNull(_, _, _)
covariantTypeCheckAnyNonNull(schema, t1, t2) ==
    IF typeCheck(t1, t2) THEN TRUE
    ELSE IF t1.List
    THEN IF ~t2.List THEN FALSE
         ELSE IF t1.SubType # <<>> /\ t2.SubType # <<>>
         THEN covariantTypeCheckAnyNonNull(schema, t1.SubType[1], t2.SubType[1])
         ELSE FALSE
    ELSE LET object == getObject(schema, t1.Name)
             intrface == getInterface(schema, t2.Name)
             union == getUnion(schema, t2.Name)
         IN  /\ object # Nil
             /\ \/ /\ intrface # Nil
                   /\ \E i \in DOMAIN object.Implements : object.Implements[i] = intrface.Name
                \/ /\ union # Nil
                   /\ \E i \in DOMAIN union.Types : object.Name = union.Types[i]

RECURSIVE covariantTypeCheck(_, _, _)
covariantTypeCheck(schema, t1, t2) ==
    IF typeCheck(t1, t2) THEN TRUE
    ELSE IF t1.NonNull # t2.NonNull THEN FALSE
    ELSE IF t1.List
    THEN IF ~t2.List THEN FALSE
         ELSE IF t1.SubType # <<>> /\ t2.SubType # <<>>
         THEN covariantTypeCheck(schema, t1.SubType[1], t2.SubType[1])
         ELSE FALSE
    ELSE LET object == getObject(schema, t1.Name)
             intrface == getInterface(schema, t2.Name)
             union == getUnion(schema, t2.Name)
         IN  /\ object # Nil
             /\ \/ /\ intrface # Nil
                   /\ \E i \in DOMAIN object.Implements : object.Implements[i] = intrface.Name
                \/ /\ union # Nil
                   /\ \E i \in DOMAIN union.Types : object.Name = union.Types[i]

validateArgument(schema, argument) ==
    IF validateName(argument.Name) # NoErr THEN "Argument: declared with an invalid Name"
    ELSE IF validateType(schema, argument.Type) # NoErr THEN validateType(schema, argument.Type)
    ELSE IF getDeclaration(schema, argument.Type).kind \notin {"Input", "Scalar", "Enum"}
    THEN "Argument declared with invalid type"
    ELSE IF argument.Type.NonNull /\ argument.Default # NoDefault
    THEN "Argument declared with a default value, but its type is non-null"
    ELSE NoErr

\* The errors among errs(x), x an element of a map ranged over in any order.
anyOrder(map, errs(_)) == {errs(map[k]) : k \in DOMAIN map} \ {NoErr}

validateField(schema, field) ==
    LET argument(a) == validateArgument(schema, a) IN
    IF validateName(field.Name) # NoErr THEN {"Field declared with an invalid Name"}
    ELSE IF validateType(schema, field.Type) # NoErr THEN {validateType(schema, field.Type)}
    ELSE IF getDeclaration(schema, field.Type).kind = "Input"
    THEN {"Field declared with Input type"}
    ELSE anyOrder(field.Arguments, argument)

validateInputField(schema, field) ==
    IF validateName(field.Name) # NoErr THEN "Field declared with an invalid Name"
    ELSE IF validateType(schema, field.Type) # NoErr THEN validateType(schema, field.Type)
    ELSE IF getDeclaration(schema, field.Type).kind \notin {"Input", "Scalar", "Enum"}
    THEN "Field declared with invalid Type. An Input Field type must be Input, Scalar, or Enum"
    ELSE IF field.Arguments # EmptyMap
    THEN "Field declared with arguments. Input fields must be declared without arguments"
    ELSE NoErr

\* validateArgumentImplementsInterface comparing the named types only.
validateArgumentImplementsInterfaceByName(objectArg, interfaceArg) ==
    IF objectArg.Type.Name # interfaceArg.Type.Name
    THEN "Argument declared with type but Interface requires type"
    ELSE NoErr

validateArgumentImplementsInterface(objectArg, interfaceArg) ==
    IF ~typeCheck(objectArg.Type, interfaceArg.Type)
    THEN "Argument declared with type but Interface requires type"
    ELSE NoErr

validateFieldImplementsInterface(schema, objectField, interfaceField) ==
    LET required(interfaceArgument) ==
            IF interfaceArgument.Name \in DOMAIN objectField.Arguments
            THEN validateArgumentImplementsInterface(
                    objectField.Arguments[interfaceArgument.Name], interfaceArgument)
            ELSE "Field declared without Argument required by Interface"
        additional(objectArgument) ==
            IF /\ objectArgument.Name \notin DOMAIN interfaceField.Arguments
               /\ objectArgument.Type.NonNull
            THEN "Field declared an additional Argument with a non-null type"
            ELSE NoErr
    IN  IF covariantTypeCheck(schema, objectField.Type, interfaceField.Type)
        THEN IF anyOrder(interfaceField.Arguments, required) # {}
             THEN anyOrder(interfaceField.Arguments, required)
             ELSE anyOrder(objectField.Arguments, additional)
        ELSE {"Field declared with type but Interface requires the type or a valid sub-type"}


validateScalar(schema, scalar) == {}

validateEnum(schema, enum) ==
    IF Len(enum.Values) = 0 THEN {"Enum delcared without any values defined"}
    ELSE IF hasDuplicate(enum.Values) THEN {"Enum declared duplicate value"}
    ELSE {}

validateInput(schema, input) ==
    LET field(f) == validateInputField(schema, f) IN
    IF input.Fields = EmptyMap THEN {"Input declared without any Fields defined"}
    ELSE anyOrder(input.Fields, field)

validateInterface(schema, intrface) ==
    IF intrface.Fields = EmptyMap THEN {"Interface declared without any Fields defined"}
    ELSE UNION {validateField(schema, intrface.Fields[k]) : k \in DOMAIN intrface.Fields}

\* The loop of validateObject over object.Implements, a slice, from index i.
RECURSIVE validateImplements(_, _, _)
validateImplements(schema, object, i) ==
    IF i > Len(object.Implements) THEN {}
    ELSE LET intrface == getInterface(schema, object.Implements[i])
             implemented(interfaceField) ==
                IF interfaceField.Name \in DOMAIN object.Fields
                THEN validateFieldImplementsInterface(
                        schema, object.Fields[interfaceField.Name], interfaceField)
                ELSE {"Object declared without Field required by Interface"}
             errs == UNION {implemented(intrface.Fields[k]) : k \in DOMAIN intrface.Fields}
         IN  IF intrface = Nil THEN {"Object declared implementing unknown Interface"}
             ELSE IF errs # {} THEN errs
             ELSE validateImplements(schema, object, i + 1)

validateObject(schema, object) ==
    LET errs == UNION {validateField(schema, object.Fields[k]) : k \in DOMAIN object.Fields} IN
    IF object.Fields = EmptyMap THEN {"Object declared without any Fields defined"}
    ELSE IF errs # {} THEN errs
    ELSE validateImplements(schema, object, 1)

\* A validateUnion loop that takes every declared type for a member.
RECURSIVE validateMembersAnyKind(_, _, _)
validateMembersAnyKind(schema, union, i) ==
    IF i > Len(union.Types) THEN {}
    ELSE IF getDeclaration(schema, DescribeType(union.Types[i])) = Nil
    THEN {"Union declared with unknown type"}
    ELSE validateMembersAnyKind(schema, union, i + 1)

\* The loop of validateUnion over union.Types, a slice, from index i.
RECURSIVE validateMembers(_, _, _)
validateMembers(schema, union, i) ==
    IF i > Len(union.Types) THEN {}
    ELSE LET declaration == getDeclaration(schema, DescribeType(union.Types[i])) IN
         IF declaration = Nil THEN {"Union declared with unknown type"}
         ELSE IF declaration.kind # "Object"
         THEN {"Union declared with member type. Union members must be Objects"}
         ELSE validateMembers(schema, union, i + 1)

validateUnion(schema, union) ==
    IF Len(union.Types) = 0 THEN {"Union declared without any member types defined"}
    ELSE IF validateMembers(schema, union, 1) # {} THEN validateMembers(schema, union, 1)
    ELSE IF hasDuplicate(union.Types) THEN {"Union declared duplicate type"}
    ELSE {}

\* The loops of Build with objects validated before interfaces.
BuildOrderObjectsFirst == <<"Scalar", "Enum", "Object", "Interface", "Union", "Input">>

\* The six loops of Build, in the order Build runs them: the kind validated
\* and the collection ranged over.
BuildOrder == <<"Scalar", "Enum", "Interface", "Object", "Union", "Input">>

collection(schema, kind) ==
    CASE kind = "Scalar" -> schema.scalars
      [] kind = "Enum" -> schema.enums
      [] kind = "Interface" -> schema.interfaces
      [] kind = "Object" -> schema.objects
      [] kind = "Union" -> schema.unions
      [] kind = "Input" -> schema.inputs

validateDeclaration(schema, declaration) ==
    CASE declaration.kind = "Scalar" -> validateScalar(schema, declaration)
      [] declaration.kind = "Enum" -> validateEnum(schema, declaration)
      [] declaration.kind = "Interface" -> validateInterface(schema, declaration)
      [] declaration.kind = "Object" -> validateObject(schema, declaration)
      [] declaration.kind = "Union" -> validateUnion(schema, declaration)
      [] declaration.kind = "Input" -> validateInput(schema, declaration)

\* The errors one loop of Build may panic with: a map is ranged over in any
\* order, so the first invalid declaration met may be any invalid one.
loopErrors(schema, kind) ==
    LET decls == collection(schema, kind) IN
    UNION {{[kind |-> kind, name |-> n, msg |-> m] :
                m \in validateDeclaration(schema, decls[n])} : n \in DOMAIN decls}

\* Build from its i-th loop on: the errors it may panic with (none when it
\* returns the schema) and the kinds whose loop has run.
RECURSIVE buildFrom(_, _, _)
buildFrom(schema, i, visited) ==
    IF i > Len(BuildOrder) THEN [errors |-> {}, visited |-> visited]
    ELSE LET errs == loopErrors(schema, BuildOrder[i]) IN
         IF errs # {}
         THEN [errors |-> errs, visited |-> Append(visited, BuildOrder[i])]
         ELSE buildFrom(schema, i + 1, Append(visited, BuildOrder[i]))

Build(builder) == buildFrom(builder.schema, 1, <<>>)

\* NewSchema: the builder with the default schema declared.
DefaultDeclarations ==
    << Object("__Schema", <<>>, Fields(<<
            Field("types", DescribeNonNullListType(DescribeNonNullType("__Type")), EmptyMap),
            Field("queryType", DescribeNonNullType("__Type"), EmptyMap),
            Field("mutationType", DescribeType("__Type"), EmptyMap),
            Field("directives",
                  DescribeNonNullListType(DescribeNonNullType("__Directive")), EmptyMap)>>)),
       Object("__Type", <<>>, Fields(<<
            Field("kind", DescribeNonNullType("__TypeKind"), EmptyMap),
            Field("name", NonNullStringType, EmptyMap),
            Field("description", StringType, EmptyMap),
            Field("fields", DescribeNonNullType("__Field"),
                  Arguments(<<Argument("includeDeprecated", BooleanType, "false")>>)),
            Field("interfaces", DescribeListType(DescribeNonNullType("__Type")), EmptyMap),
            Field("possibleTypes", DescribeListType(DescribeNonNullType("__Type")), EmptyMap),
            Field("enumValues", DescribeNonNullType("__EnumValue"),
                  Arguments(<<Argument("includeDeprecated", BooleanType, "false")>>)),
            Field("inputFields",
                  DescribeListType(DescribeNonNullType("__InputValue")), EmptyMap),
            Field("ofType", DescribeType("__Type"), EmptyMap)>>)),
       Object("__Field", <<>>, Fields(<<
            Field("name", NonNullStringType, EmptyMap),
            Field("description", StringType, EmptyMap),
            Field("args", DescribeNonNullListType(DescribeNonNullType("__InputValue")),
                  EmptyMap),
            Field("type", DescribeNonNullType("__Type"), EmptyMap),
            Field("isDeprecated", NonNullBooleanType, EmptyMap),
            Field("deprecationReason", StringType, EmptyMap)>>)),
       Object("__InputValue", <<>>, Fields(<<
            Field("name", NonNullStringType, EmptyMap),
            Field("description", StringType, EmptyMap),
            Field("type", DescribeNonNullType("__Type"), EmptyMap),
            Field("defaultValue", StringType, EmptyMap)>>)),
       Object("__EnumValue", <<>>, Fields(<<
            Field("name", NonNullStringType, EmptyMap),
            Field("description", StringType, EmptyMap),
            Field("isDeprecated", NonNullBooleanType, EmptyMap),
            Field("deprecationReason", StringType, EmptyMap)>>)),
       Object("__Directive", <<>>, Fields(<<
            Field("name", NonNullStringType, EmptyMap),
            Field("description", StringType, EmptyMap),
            Field("location",
                  DescribeNonNullListType(DescribeNonNullType("__DirectiveLocation")),
                  EmptyMap),
            Field("args", DescribeNonNullListType(DescribeNonNullType("__InputValue")),
                  EmptyMap)>>)),
       Enum("__TypeKind", <<"SCALAR", "OBJECT", "INTERFACE", "UNION", "ENUM",
                            "INPUT_OBJECT", "LIST", "NON_NULL">>),
       Enum("__DirectiveLocation", <<"QUERY", "MUTATION", "FIELD", "FRAGMENT_DEFINITION",
                                     "FRAGMENT_SPREAD", "INLINE_FRAGMENT">>),
       Scalar("Int"), Scalar("Float"), Scalar("String"), Scalar("Boolean"), Scalar("ID") >>

\* A chain of Declare calls none of which panics.
RECURSIVE DeclareAll(_, _)
DeclareAll(builder, declarations) ==
    IF declarations = <<>> THEN builder
    ELSE Declare(DeclareAll(builder, SubSeq(declarations, 1, Len(declarations) - 1)),
                 declarations[Len(declarations)]).builder

NewSchema == DeclareAll(NewBuilder, DefaultDeclarations)

-----------------------------------------------------------------------------
(* The front end: Tokenize, then parse, then validate.                     *)

NoResult == [errors |-> <<>>, panicked |-> FALSE]
NoPanic == [kind |-> "", name |-> "", msg |-> ""]

\* The schema of the end-to-end scenario: QueryRoot { dog: Dog }, Dog { name: String! }.
DogSchema ==
    DeclareAll(NewSchema, <<
        Object("Dog", <<>>, Fields(<<Field("name", NonNullStringType, EmptyMap)>>)),
        Object("QueryRoot", <<>>, Fields(<<Field("dog", DescribeType("Dog"), EmptyMap)>>))
    >>).schema

\* "query{}", "query(){}" and "query Q($a:[a!]=1){}"
QueryText == QueryWord \o <<Ch.lbrace, Ch.rbrace>>
QueryParensText == QueryWord \o <<Ch.lparen, Ch.rparen, Ch.lbrace, Ch.rbrace>>
QueryVariableText ==
    QueryWord \o <<Ch.sp, Ch.Q, Ch.lparen, Ch.dollar, Ch.a, Ch.colon, Ch.lbracket, Ch.a,
                   Ch.bang, Ch.rbracket, Ch.equals, Ch.d1, Ch.rparen, Ch.lbrace, Ch.rbrace>>

\* query($a:a={a:1}){} and query($a:a={a:1 a:1}){}: a variable whose default
\* is an object value, with one key and with the key repeated.
QueryObjectDefaultText ==
    QueryWord \o <<Ch.lparen, Ch.dollar, Ch.a, Ch.colon, Ch.a, Ch.equals,
                   Ch.lbrace, Ch.a, Ch.colon, Ch.d1, Ch.rbrace,
                   Ch.rparen, Ch.lbrace, Ch.rbrace>>
QueryObjectRepeatedKeyText ==
    QueryWord \o <<Ch.lparen, Ch.dollar, Ch.a, Ch.colon, Ch.a, Ch.equals,
                   Ch.lbrace, Ch.a, Ch.colon, Ch.d1, Ch.sp, Ch.a, Ch.colon, Ch.d1, Ch.rbrace,
                   Ch.rparen, Ch.lbrace, Ch.rbrace>>

\* query($a:[[a]]=[1 [1]]){}query(){}: a list of lists as type, a list of two
\* values as default, and two definitions.
QueryNestedListText ==
    QueryWord \o <<Ch.lparen, Ch.dollar, Ch.a, Ch.colon, Ch.lbracket, Ch.lbracket, Ch.a,
                   Ch.rbracket, Ch.rbracket, Ch.equals, Ch.lbracket, Ch.d1, Ch.sp,
                   Ch.lbracket, Ch.d1, Ch.rbracket, Ch.rbracket, Ch.rparen,
                   Ch.lbrace, Ch.rbrace>>
        \o QueryWord \o <<Ch.lparen, Ch.rparen, Ch.lbrace, Ch.rbrace>>

Texts ==
    ShortTexts \cup StringTexts \cup NumberTexts
    \cup {DogNameText, DogNicknameText, QueryText, QueryParensText, QueryVariableText,
           QueryObjectDefaultText, QueryObjectRepeatedKeyText, QueryNestedListText}

builderIdle ==
    /\ theBuilder = NewBuilder
    /\ outcome = "idle"
    /\ panicErr = NoPanic
    /\ visitedKinds = <<>>
    /\ returned = <<>>
    /\ namesPassed = {}
    /\ repeated = FALSE
    /\ numCalls = 0

Init ==
    /\ src \in Texts
    /\ skip \in BOOLEAN
    /\ lx = newLexer
    /\ tokens = <<>>
    /\ spans = <<>>
    /\ lexErr = NoErr
    /\ stage = "lex"
    /\ parseErr = NoErr
    /\ theSchema = DogSchema
    /\ theDocument = EmptyDocument
    /\ valResult = NoResult
    /\ builderIdle

\* One turn of the loop of Tokenize.
TokenizeStep ==
    /\ stage = "lex"
    /\ LET kept(nt) ==
                nt.err = NoErr /\ ~(skip /\ nt.token.Type \in {"Whitespace", "LineTerminator"})
           loop(nt) ==
                /\ lx' = nt.l
                /\ lexErr' = nt.err
                /\ tokens' = IF kept(nt) THEN Append(tokens, nt.token) ELSE tokens
                /\ spans' = IF kept(nt)
                            THEN Append(spans, [from |-> lx.pos, to |-> nt.l.pos])
                            ELSE spans
                /\ stage' = IF nt.err # NoErr \/ nt.token.Type = "EOF"
                            THEN "lexed" ELSE "lex"
       IN  loop(nextToken(src, lx))
    /\ UNCHANGED <<src, skip, parseErr, theSchema, theDocument, valResult>>
    /\ UNCHANGED builderVars

\* parse, on the tokens of a source that Tokenize scanned without error.
Parse ==
    /\ stage = "lexed"
    /\ lexErr = NoErr
    /\ LET p == parse(tokens) IN
       /\ parseErr' = p.err
       /\ theDocument' = p.document
    /\ stage' = "parsed"
    /\ UNCHANGED <<src, skip, lx, tokens, spans, lexErr, theSchema, valResult>>
    /\ UNCHANGED builderVars

\* validate, on the document of a token sequence that parse accepted.
Validate ==
    /\ stage = "parsed"
    /\ parseErr = NoErr
    /\ valResult' = validate(theSchema, theDocument)
    /\ stage' = "done"
    /\ UNCHANGED <<src, skip, lx, tokens, spans, lexErr, parseErr, theSchema, theDocument>>
    /\ UNCHANGED builderVars

Next == TokenizeStep \/ Parse \/ Validate

Spec == Init /\ [][Next]_vars

-----------------------------------------------------------------------------
(* The builder: a chain  NewSchema().Declare(d1).Declare(d2)...Build()  on *)
(* one Builder value.  A panic unwinds the chain, so no call follows it;   *)
(* a Build that never returns is followed by nothing either.               *)

MaxDeclare == 3

FieldF(type, arguments) == Field("f", type, Arguments(arguments))
ArgA(type) == Argument("a", type, NoDefault)
ArgB(type) == Argument("b", type, NoDefault)

\* One name declared as each of the six kinds.
SameNameDeclarations ==
    { Scalar("D"),
      Enum("D", <<"A">>),
      Input("D", Fields(<<Field("x", IntType, EmptyMap)>>)),
      Interface("D", Fields(<<Field("x", StringType, EmptyMap)>>)),
      Object("D", <<>>, Fields(<<Field("x", StringType, EmptyMap)>>)),
      Union("D", <<"O">>) }

\* interface I { f(a: String): String } and objects O that implement it.
InterfaceI == Interface("I", Fields(<<FieldF(StringType, <<ArgA(StringType)>>)>>))
ObjectsO ==
    { Object("O", <<"I">>, Fields(<<FieldF(StringType, <<ArgA(StringType)>>)>>)),
      Object("O", <<"I">>, Fields(<<FieldF(StringType, <<ArgA(NonNullStringType)>>)>>)),
      Object("O", <<"I">>, Fields(<<FieldF(StringType, <<ArgA(IntType)>>)>>)),
      Object("O", <<"I">>, Fields(<<FieldF(StringType, <<>>)>>)),
      Object("O", <<"I">>,
             Fields(<<FieldF(StringType, <<ArgA(StringType), ArgB(StringType)>>)>>)),
      Object("O", <<"I">>,
             Fields(<<FieldF(StringType, <<ArgA(StringType), ArgB(NonNullStringType)>>)>>)),
      Object("O", <<"I">>, Fields(<<FieldF(NonNullStringType, <<ArgA(StringType)>>)>>)),
      Object("O", <<>>, EmptyMap) }

\* Declarations of the other kinds, valid and invalid.
OtherDeclarations ==
    { Union("U", <<"O">>),
      Union("U", <<>>),
      Union("U", <<"D">>),
      Union("U", <<"Missing">>),
      Union("U", <<"O", "O">>),
      Enum("E", <<>>),
      Enum("G", <<"A", "A">>),
      Input("N", EmptyMap),
      Interface("J", EmptyMap),
      Interface("K", Fields(<<FieldF(DescribeListType(DescribeListType(StringType)),
                                     <<>>)>>)),
      Scalar("Some Enum With Spaces"),
      Scalar(""),
      Scalar("String") }

Declarations == SameNameDeclarations \cup {InterfaceI} \cup ObjectsO \cup OtherDeclarations

frontIdle ==
    /\ src = <<>>
    /\ skip = FALSE
    /\ lx = newLexer
    /\ tokens = <<>>
    /\ spans = <<>>
    /\ lexErr = NoErr
    /\ stage = "idle"
    /\ parseErr = NoErr
    /\ theSchema = newSchema
    /\ theDocument = EmptyDocument
    /\ valResult = NoResult

InitBuilder ==
    /\ frontIdle
    /\ theBuilder = NewSchema
    /\ outcome = "new"
    /\ panicErr = NoPanic
    /\ visitedKinds = <<>>
    /\ returned = <<>>
    /\ namesPassed = {}
    /\ repeated = FALSE
    /\ numCalls = 0

chainAlive == outcome \in {"new", "declared", "schema"}

\* builder.Declare(declaration): the declaration is stored, or the call panics.
DeclareCall(declaration) ==
    /\ chainAlive
    /\ numCalls < MaxDeclare
    /\ LET d == Declare(theBuilder, declaration) IN
       /\ theBuilder' = d.builder
       /\ outcome' = IF d.err = NoErr THEN "declared" ELSE "declarePanic"
       /\ panicErr' = IF d.err = NoErr THEN panicErr
                      ELSE [kind |-> declaration.kind, name |-> declaration.Name,
                            msg |-> d.err]
    /\ namesPassed' = namesPassed \cup {[Name |-> declaration.Name, kind |-> declaration.kind]}
    /\ repeated' = (repeated \/ \E p \in namesPassed : p.Name = declaration.Name)
    /\ numCalls' = numCalls + 1
    /\ UNCHANGED <<visitedKinds, returned>>
    /\ UNCHANGED frontVars

\* builder.Build(): returns builder.schema itself, panics with the first
\* error met, or never returns.
BuildCall ==
    /\ chainAlive
    /\ LET b == Build(theBuilder) IN
       /\ visitedKinds' = b.visited
       /\ \/ /\ b.errors = {}
             /\ outcome' = "schema"
             /\ returned' = <<theBuilder.schema>>
             /\ panicErr' = panicErr
          \/ \E e \in b.errors :
                /\ outcome' = IF e.msg = Hang THEN "hang" ELSE "buildPanic"
                /\ panicErr' = e
                /\ returned' = returned
    /\ UNCHANGED <<theBuilder, namesPassed, repeated, numCalls>>
    /\ UNCHANGED frontVars

NextBuilder == (\E declaration \in Declarations : DeclareCall(declaration)) \/ BuildCall

SpecBuilder == InitBuilder /\ [][NextBuilder]_vars

-----------------------------------------------------------------------------
(* Properties of the builder.                                              *)

\* Type references built with the four Describe helpers.
NamedTypes ==
    {DescribeType(n) : n \in {"String", "Int", "O", "I", "U", "D"}}
        \cup {DescribeNonNullType(n) : n \in {"String", "O", "I", "U"}}
ListTypes ==
    {DescribeListType(t) : t \in NamedTypes} \cup {DescribeNonNullListType(t) : t \in NamedTypes}
NestedListTypes ==
    {DescribeListType(DescribeListType(DescribeType(n))) : n \in {"O", "I"}}
TypeReferences == NamedTypes \cup ListTypes \cup NestedListTypes

\* The relation as the specification words it.
RECURSIVE isValidSubtype(_, _, _)
isValidSubtype(s, candidate, required) ==
    \/ candidate = required
    \/ /\ candidate.NonNull = required.NonNull
       /\ candidate.List /\ required.List
       /\ isValidSubtype(s, candidate.SubType[1], required.SubType[1])
    \/ /\ candidate.NonNull = required.NonNull
       /\ ~candidate.List /\ ~required.List
       /\ candidate.Name \in DOMAIN s.objects
       /\ \/ /\ required.Name \in DOMAIN s.interfaces
             /\ \E i \in DOMAIN s.objects[candidate.Name].Implements :
                    s.objects[candidate.Name].Implements[i] = required.Name
          \/ /\ required.Name \in DOMAIN s.unions
             /\ \E i \in DOMAIN s.unions[required.Name].Types :
                    s.unions[required.Name].Types[i] = candidate.Name

argumentsConform(s, object) ==
    \A i \in DOMAIN object.Implements :
        /\ object.Implements[i] \in DOMAIN s.interfaces
        /\ \A fn \in DOMAIN s.interfaces[object.Implements[i]].Fields :
              /\ fn \in DOMAIN object.Fields
              /\ LET interfaceArguments == s.interfaces[object.Implements[i]].Fields[fn].Arguments
                     objectArguments == object.Fields[fn].Arguments
                 IN  /\ \A an \in DOMAIN interfaceArguments :
                            /\ an \in DOMAIN objectArguments
                            /\ objectArguments[an].Type = interfaceArguments[an].Type
                     /\ \A an \in DOMAIN objectArguments \ DOMAIN interfaceArguments :
                            ~objectArguments[an].Type.NonNull

C8_DuplicateNames == repeated => outcome = "declarePanic"

\* A name was declared as two different kinds with another declaration in the chain.
C8_Witness ==
    /\ repeated
    /\ outcome = "declarePanic"
    /\ \E p, q \in namesPassed : p.Name = q.Name /\ p.kind # q.kind
    /\ Cardinality({p.Name : p \in namesPassed}) = 2
    /\ numCalls = 3

\* C9: the Schema that Build returned keeps the declarations it had when it
\* was returned, whatever is called on the builder afterwards.  Build returns
\* builder.schema itself, so the returned Schema is the builder's schema.
C9_ReturnedSchemaImmutable == returned # <<>> => theBuilder.schema = returned[1]

\* The order the specification gives, and the kinds with an invalid declaration.
KindsInOrder == <<"Scalar", "Enum", "Interface", "Object", "Union", "Input">>
kindRank(kind) == CHOOSE i \in DOMAIN KindsInOrder : KindsInOrder[i] = kind
invalidKinds(s) ==
    {k \in {KindsInOrder[i] : i \in DOMAIN KindsInOrder} :
        \E n \in DOMAIN collection(s, k) : validateDeclaration(s, collection(s, k)[n]) # {}}

\* C10: when Build panics, the error is one of the earliest kind, in the order
\* scalars, enums, interfaces, objects, unions, inputs, that has an invalid
\* declaration, and no loop over a later kind has run.
C10_BuildOrder ==
    outcome = "buildPanic" =>
        /\ panicErr.kind \in invalidKinds(theBuilder.schema)
        /\ \A k \in invalidKinds(theBuilder.schema) : kindRank(panicErr.kind) <= kindRank(k)
        /\ \A i \in DOMAIN visitedKinds : kindRank(visitedKinds[i]) <= kindRank(panicErr.kind)

\* Build panicked on a schema with invalid declarations of two kinds, an
\* interface and an object among them.
C10_Witness ==
    /\ outcome = "buildPanic"
    /\ {"Interface", "Object"} \subseteq invalidKinds(theBuilder.schema)
    /\ panicErr.kind = "Interface"

-----------------------------------------------------------------------------
(* The validator on its own: validate on a built Schema and a Document.    *)

MaxOperations == 2
MaxFragments == 1

\* A schema with every kind of declaration a selection can meet.
PetSchema ==
    DeclareAll(NewSchema, <<
        Enum("DogCommand", <<"SIT", "DOWN", "HEEL">>),
        Input("Point", Fields(<<Field("x", IntType, EmptyMap)>>)),
        Interface("Pet", Fields(<<Field("name", NonNullStringType, EmptyMap)>>)),
        Object("Dog", <<"Pet">>, Fields(<<
            Field("name", NonNullStringType, EmptyMap),
            Field("nickname", StringType, EmptyMap),
            Field("command", DescribeType("DogCommand"), EmptyMap),
            Field("doesKnowCommand", NonNullBooleanType,
                  Arguments(<<Argument("dogCommand", DescribeNonNullType("DogCommand"),
                                       NoDefault)>>))>>)),
        Object("Cat", <<"Pet">>, Fields(<<Field("name", NonNullStringType, EmptyMap)>>)),
        Union("CatOrDog", <<"Cat", "Dog">>),
        Object("QueryRoot", <<>>, Fields(<<
            Field("dog", DescribeType("Dog"), EmptyMap),
            Field("pet", DescribeType("Pet"), EmptyMap),
            Field("catOrDog", DescribeType("CatOrDog"), EmptyMap)>>))
    >>).schema

\* The schemas Build returns among: the default schema (no QueryRoot), the
\* schema of the end-to-end scenario, and PetSchema.
BuiltSchemas ==
    {s \in {NewSchema.schema, DogSchema, PetSchema} :
        Build([schema |-> s, declaredTypeNames |-> {}]).errors = {}}

Select(fields) == SelectionSet(fields, <<>>, <<>>)
Leaf(name) == SelectedField(name, {}, EmptySelectionSet)

\* { dog { name } }, { dog { nickname } }, { dog { name { x } nickname } bogus },
\* { dog { ... on Point { x } } }, { dog { name ...F } }
SelectDogName == Select(<<SelectedField("dog", {}, Select(<<Leaf("name")>>))>>)
SelectDogNickname == Select(<<SelectedField("dog", {}, Select(<<Leaf("nickname")>>))>>)
SelectTwoProblems ==
    Select(<<SelectedField("dog", {},
                Select(<<SelectedField("name", {}, Select(<<Leaf("x")>>))>>)),
             Leaf("bogus")>>)
SelectInlineOnInput ==
    Select(<<SelectedField("dog", {},
                SelectionSet(<<>>, <<InlineFragment("Point", Select(<<Leaf("x")>>))>>,
                             <<>>))>>)
SelectSpreadF ==
    Select(<<SelectedField("dog", {},
                SelectionSet(<<Leaf("name")>>, <<>>, <<FragmentSpread("F")>>))>>)

Operations ==
    { Operation("query", "", SelectDogName),
      Operation("query", "", SelectDogNickname),
      Operation("query", "Q", SelectDogName),
      Operation("query", "Q", SelectTwoProblems),
      Operation("query", "R", SelectInlineOnInput),
      Operation("query", "R", SelectSpreadF),
      Operation("mutation", "", EmptySelectionSet),
      Operation("mutation", "Q", SelectDogNickname),
      Operation("subscription", "S", SelectTwoProblems) }

Fragments ==
    { Fragment("F", "Dog", Select(<<Leaf("name")>>)),
      Fragment("F", "Dog", Select(<<Leaf("nickname")>>)),
      Fragment("F", "Point", Select(<<Leaf("x")>>)),
      Fragment("F", "Missing", Select(<<Leaf("name")>>)),
      Fragment("G", "DogCommand", EmptySelectionSet) }

RECURSIVE SeqsUpTo(_, _)
SeqsUpTo(S, n) ==
    IF n = 0 THEN {<<>>}
    ELSE LET shorter == SeqsUpTo(S, n - 1) IN
         shorter \cup {Append(q, x) : q \in shorter, x \in S}

MaxFields == 2

\* Selections on Dog, an Object: declared and undeclared fields, a Scalar
\* and an Enum with a subselection, declared and undeclared arguments.
DogFieldPool ==
    { Leaf("name"), Leaf("nickname"), Leaf("command"), Leaf("bogus"),
      SelectedField("name", {}, Select(<<Leaf("x")>>)),
      SelectedField("command", {}, Select(<<Leaf("x")>>)),
      SelectedField("doesKnowCommand", {"dogCommand"}, EmptySelectionSet),
      SelectedField("doesKnowCommand", {"dogCommand", "bogus", "other"},
                    EmptySelectionSet) }

\* Selections on Pet, an Interface.
PetFieldPool ==
    { Leaf("name"), Leaf("nickname"),
      SelectedField("name", {"bogus"}, EmptySelectionSet) }

\* { dog { ... } } and { pet { ... } }, the empty subselection included.
KindSelections ==
    {Select(<<SelectedField("dog", {}, Select(fields))>>) :
        fields \in SeqsUpTo(DogFieldPool, MaxFields)}
    \cup {Select(<<SelectedField("pet", {}, Select(fields))>>) :
        fields \in SeqsUpTo(PetFieldPool, MaxFields)}

\* { catOrDog { f } } and { catOrDog { ... on M { f } } }
UnionDirect(f) == Select(<<SelectedField("catOrDog", {}, Select(<<Leaf(f)>>))>>)
UnionInline(m, f) ==
    Select(<<SelectedField("catOrDog", {},
                SelectionSet(<<>>, <<InlineFragment(m, Select(<<Leaf(f)>>))>>, <<>>))>>)

UnionSelections ==
    {UnionDirect(f) : f \in {"name", "nickname", "__typename"}}
    \cup {UnionInline(m, f) : m \in {"Cat", "Dog"}, f \in {"name", "nickname"}}

\* A document that is one anonymous query with the given selection set.
QueryDocument(selectionSet) == Document(<<Operation("query", "", selectionSet)>>, <<>>)

Documents ==
    {Document(ops, frags) :
        ops \in SeqsUpTo(Operations, MaxOperations),
        frags \in SeqsUpTo(Fragments, MaxFragments)}
    \cup {QueryDocument(s) : s \in KindSelections \cup UnionSelections}

InitValidator ==
    /\ src = <<>>
    /\ skip = FALSE
    /\ lx = newLexer
    /\ tokens = <<>>
    /\ spans = <<>>
    /\ lexErr = NoErr
    /\ stage = "parsed"
    /\ parseErr = NoErr
    /\ theSchema \in BuiltSchemas
    /\ theDocument \in Documents
    /\ valResult = NoResult
    /\ builderIdle

NextValidator == Validate

SpecValidator == InitValidator /\ [][NextValidator]_vars

-----------------------------------------------------------------------------
(* Properties of the front end and of the validator.                       *)

\* Nothing more runs for this source: a stage failed, or validate has returned.
finished ==
    \/ stage = "done"
    \/ stage = "lexed" /\ lexErr # NoErr
    \/ stage = "parsed" /\ parseErr # NoErr

\* C1: { dog { name } }, tokenized with insignificant tokens skipped, parsed
\* and validated against QueryRoot { dog: Dog }, Dog { name: String! }, goes
\* through the three stages and yields no validation error;
\* { dog { nickname } } goes through them and yields exactly one, the error
\* for the unknown field.
C1_EndToEnd ==
    /\ (src = DogNameText /\ skip /\ finished) =>
            /\ stage = "done"
            /\ ~valResult.panicked
            /\ valResult.errors = <<>>
    /\ (src = DogNicknameText /\ skip /\ finished) =>
            /\ stage = "done"
            /\ ~valResult.panicked
            /\ valResult.errors =
                    <<"Field Selection error: Object type does not contain the field">>

\* A query operation with two independent problems next to an operation of
\* the same name.
TwoProblemsDocument ==
    Document(<<Operation("query", "Q", SelectDogName),
               Operation("query", "Q", SelectTwoProblems)>>, <<>>)

errorsOf(result) == {result.errors[i] : i \in DOMAIN result.errors}

\* C2: validate never panics: for every built Schema and every Document it
\* returns a list of errors, and the list holds every independent problem of
\* the document.
C2_ValidateNeverPanics ==
    stage = "done" =>
        /\ ~valResult.panicked
        /\ (theSchema = PetSchema /\ theDocument = TwoProblemsDocument) =>
                {"Operation Name Uniqueness error",
                 "Field Selection error: subselection not allowed on Scalar",
                 "Field Selection error: Object type does not contain the field"}
                    \subseteq errorsOf(valResult)

\* The code points a token covers, and the last token scanned on a line.
covered(i) == spans[i].to - spans[i].from
firstOnLine(i) == i = 1 \/ tokens[i - 1].Line # tokens[i].Line

\* C3: for an input scanned without error, with insignificant tokens kept,
\* the first token of a line starts at column 0, every next token starts at
\* the previous ColumnEnd + 1, a token's span is as long as the number of
\* code points it covers, and EOF starts right after the last code point.
C3_ColumnSpansTile ==
    (stage # "lex" /\ lexErr = NoErr /\ ~skip) =>
        \A i \in DOMAIN tokens :
            /\ firstOnLine(i) => tokens[i].ColumnStart = 0
            /\ ~firstOnLine(i) => tokens[i].ColumnStart = tokens[i - 1].ColumnEnd + 1
            /\ tokens[i].Type # "EOF" =>
                    tokens[i].ColumnEnd - tokens[i].ColumnStart + 1 = covered(i)
            /\ tokens[i].Type = "EOF" => tokens[i].ColumnEnd = tokens[i].ColumnStart

\* C4: -0 is one Integer token with value -0, and a source that begins with
\* -0 and another digit is rejected with an error.
C4_NegativeZero ==
    stage # "lex" =>
        /\ (src = <<Ch.minus, Ch.d0>> /\ ~skip) =>
                /\ lexErr = NoErr
                /\ Len(tokens) = 2
                /\ tokens[1].Type = "Integer" /\ tokens[1].Value = <<Ch.minus, Ch.d0>>
                /\ tokens[2].Type = "EOF"
        /\ (/\ Len(src) >= 3
            /\ src[1] = Ch.minus /\ src[2] = Ch.d0 /\ isIntegerCharacter(src[3])) =>
                lexErr # NoErr

\* C5: a source that begins with a - not followed by a digit is rejected with
\* an error, at the end of the input and before any other code point, and no
\* Integer token has the value - alone.
C5_LoneMinus ==
    /\ \A i \in DOMAIN tokens :
            tokens[i].Type = "Integer" => tokens[i].Value # <<Ch.minus>>
    /\ (/\ stage # "lex"
        /\ Len(src) >= 1 /\ src[1] = Ch.minus
        /\ Len(src) >= 2 => ~isIntegerCharacter(src[2])) =>
            lexErr # NoErr

\* The Object members of a Union of the schema.
unionMembers(schema, name) ==
    {schema.unions[name].Types[i] : i \in DOMAIN schema.unions[name].Types}

unionFieldError == "Field Selection error: cannot select non-metadata field from Union"

\* C11: on CatOrDog, a Union of the Objects Cat and Dog, a selection set that
\* selects a field other than __typename directly yields exactly one
\* validation error, and the same field inside an inline fragment on a member
\* that declares it yields none.
C11_UnionSelection ==
    (stage = "done" /\ theSchema = PetSchema) =>
        \A m \in unionMembers(PetSchema, "CatOrDog") :
            \A f \in DOMAIN PetSchema.objects[m].Fields :
                /\ theDocument = QueryDocument(UnionDirect(f)) =>
                        valResult = [errors |-> <<unionFieldError>>, panicked |-> FALSE]
                /\ theDocument = QueryDocument(UnionInline(m, f)) =>
                        valResult = [errors |-> <<>>, panicked |-> FALSE]

\* validate has returned for { catOrDog { ... on Dog { nickname } } }.
C11_Witness ==
    /\ stage = "done"
    /\ theSchema = PetSchema
    /\ Cardinality(unionMembers(PetSchema, "CatOrDog")) = 2
    /\ theDocument = QueryDocument(UnionInline("Dog", "nickname"))

\* The number of errors of a selection set on a type that is a Scalar, an
\* Enum, an Object or an Interface: one for a subselection on a Scalar or
\* an Enum, one for an empty selection on an Object or an Interface, one for
\* every selected field the type does not declare, one for every supplied
\* argument the field does not declare, and those of every declared field's
\* subselection on the type the field returns.
RECURSIVE expectedErrors(_, _, _)
expectedErrors(schema, type, selectionSet) ==
    IF type.kind \in {"Scalar", "Enum"}
    THEN (IF IsEmpty(selectionSet) THEN 0 ELSE 1)
    ELSE IF IsEmpty(selectionSet) THEN 1
    ELSE LET fields == selectionSet.Fields
             ofField(selected) ==
                IF selected.Name \notin DOMAIN type.Fields THEN 1
                ELSE expectedErrors(schema,
                        getDeclaration(schema, type.Fields[selected.Name].Type),
                        selected.SelectionSet)
                     + Cardinality(selected.Arguments
                                   \ DOMAIN type.Fields[selected.Name].Arguments)
             sum[i \in 0..Len(fields)] ==
                IF i = 0 THEN 0 ELSE sum[i - 1] + ofField(fields[i])
         IN  sum[Len(fields)]

\* C12: a selection set on a Scalar or an Enum yields an error when it is not
\* empty and none when it is; on an Object or an Interface an empty
\* selection set yields an error, every undeclared selected field yields one
\* error, every undeclared supplied argument yields one error, and every
\* declared field is validated against the type it returns; selecting a field
\* twice is no error.
C12_SelectionSetByKind ==
    (/\ stage = "done"
     /\ theSchema = PetSchema
     /\ \E s \in KindSelections : theDocument = QueryDocument(s)) =>
        /\ ~valResult.panicked
        /\ Len(valResult.errors) =
                expectedErrors(PetSchema, PetSchema.objects["QueryRoot"],
                               theDocument.Operations[1].SelectionSet)
        /\ theDocument = QueryDocument(Select(<<SelectedField("dog", {},
                                Select(<<Leaf("name"), Leaf("name")>>))>>)) =>
                valResult.errors = <<>>

\* validate has returned three errors: a subselection on a Scalar and two
\* undeclared arguments.
C12_Witness ==
    /\ stage = "done"
    /\ theSchema = PetSchema
    /\ \E s \in KindSelections : theDocument = QueryDocument(s)
    /\ valResult.errors =
            <<"Field Selection error: subselection not allowed on Scalar",
              "Field Argument error: provided invalid argument",
              "Field Argument error: provided invalid argument">>

\* The types of a token sequence.
typesOf(toks) == [i \in DOMAIN toks |-> toks[i].Type]

\* C17: the variable definitions of an operation are optional: the token
\* sequence Name(query) OpenBrace ClosedBrace EOF, an operation with no name
\* and no parenthesized variable definitions, parses without error.
C17_VariableDefinitionsOptional ==
    (/\ stage \in {"parsed", "done"}
     /\ typesOf(tokens) = <<"Name", "OpenBrace", "ClosedBrace", "EOF">>
     /\ tokens[1].Value = QueryWord) =>
        parseErr = NoErr

\* C13: for every fragment definition validate reports an error when the
\* fragment's name repeats the name of an earlier fragment, when its on type
\* is not declared in the schema, and when its on type is a Scalar, an Enum
\* or an Input.  Stated for documents without operations, where nothing but
\* the fragments is validated.
C13_FragmentDefinitions ==
    (stage = "done" /\ theDocument.Operations = <<>>) =>
        \A i \in DOMAIN theDocument.Fragments :
            LET fragment == theDocument.Fragments[i]
                declaration == getDeclaration(theSchema, DescribeType(fragment.Type))
            IN  /\ (\E j \in 1..(i - 1) : theDocument.Fragments[j].Name = fragment.Name) =>
                        "Fragment Name Uniqueness error" \in errorsOf(valResult)
                /\ declaration = Nil =>
                        "Fragment Spread Type Existence error" \in errorsOf(valResult)
                /\ declaration.kind \in {"Scalar", "Enum", "Input"} =>
                        /\ ~valResult.panicked
                        /\ valResult.errors # <<>>

\* How many times validate returned the error e.
countOf(e) == Cardinality({k \in DOMAIN valResult.errors : valResult.errors[k] = e})

\* The operations whose name an earlier operation of the document has, and
\* the operations without a name.
repeatedOperations ==
    {i \in DOMAIN theDocument.Operations :
        \E j \in 1..(i - 1) :
            theDocument.Operations[j].Name = theDocument.Operations[i].Name}
anonymousOperations ==
    {i \in DOMAIN theDocument.Operations : theDocument.Operations[i].Name = ""}

emptyEnumDeclared ==
    \E n \in DOMAIN theBuilder.schema.enums : theBuilder.schema.enums[n].Values = <<>>

duplicateNameError ==
    "declared with name but another type with that name has already been declared"

\* C18: a name error is raised by the Declare call itself, before any
\* structural check: a chain that has declared an Enum without values, which
\* Build would reject, and then hands a name to Declare a second time fails
\* in that call with the duplicate-name error of the later declaration; and
\* the only errors a Declare call raises are the errors about the name.
C18_NameErrorsFirst ==
    /\ (emptyEnumDeclared /\ repeated) =>
        /\ outcome = "declarePanic"
        /\ panicErr.msg = duplicateNameError
        /\ [Name |-> panicErr.name, kind |-> panicErr.kind] \in namesPassed
    /\ outcome = "declarePanic" =>
            panicErr.msg \in {duplicateNameError, validateName(""),
                              validateName("Some Enum With Spaces")}

\* The chain Declare(Enum E without values), Declare(D), Declare(D) has panicked.
C18_Witness ==
    /\ emptyEnumDeclared
    /\ repeated
    /\ numCalls = 3
    /\ outcome = "declarePanic"
    /\ panicErr.name = "D"
    /\ panicErr.msg = duplicateNameError

\* The line terminators among the first n code points of the source: every
\* LF that does not follow a CR, and every CR.
terminatorsBefore(n) ==
    Cardinality({k \in 1..n :
        \/ src[k] = Ch.cr
        \/ src[k] = Ch.lf /\ ~(k > 1 /\ src[k - 1] = Ch.cr)})

lineTerminatorsUpTo(n) ==
    Cardinality({k \in 1..n : tokens[k].Type = "LineTerminator"})

\* C19: every LineTerminator token, a LF, a lone CR or a CR LF pair scanned
\* as one token, increases the line by exactly one and makes the next token
\* start at column 0; the Line of every token is the number of
\* LineTerminator tokens scanned before it; the line never decreases.
C19_LineTracking ==
    /\ ~skip =>
          \A i \in DOMAIN tokens :
            /\ tokens[i].Line = lineTerminatorsUpTo(i - 1)
            /\ (tokens[i].Type = "LineTerminator" /\ i < Len(tokens)) =>
                    /\ tokens[i + 1].Line = tokens[i].Line + 1
                    /\ tokens[i + 1].ColumnStart = 0
            /\ tokens[i].Type = "LineTerminator" =>
                    \/ covered(i) = 1 /\ src[spans[i].to] \in {Ch.cr, Ch.lf}
                    \/ /\ covered(i) = 2
                       /\ src[spans[i].to - 1] = Ch.cr /\ src[spans[i].to] = Ch.lf
    /\ \A i \in DOMAIN tokens :
            /\ tokens[i].Line = terminatorsBefore(spans[i].from)
            /\ i > 1 => tokens[i].Line >= tokens[i - 1].Line
    /\ lexErr = NoErr => lx.line = terminatorsBefore(lx.pos)

\* A CR LF pair was scanned as one LineTerminator token and the token after it
\* is on line 1.
C19_Witness ==
    /\ ~skip
    /\ Len(tokens) >= 2
    /\ tokens[1].Type = "LineTerminator"
    /\ covered(1) = 2
    /\ tokens[2].Type = "Name"
    /\ tokens[2].Line = 1
    /\ tokens[2].ColumnStart = 0

\* A token sequence without its Whitespace and LineTerminator tokens.
significant(toks) ==
    SelectSeq(toks, LAMBDA t : t.Type \notin {"Whitespace", "LineTerminator"})

\* C20: the tokens Tokenize returns when it ignores whitespace are the tokens
\* it returns when it does not, with every Whitespace and LineTerminator
\* token removed and every other token, Comment, UnicodeBOM and EOF included,
\* kept in order with the same kind, value and position; the error is the
\* same in both modes.  Here the run in one mode is compared with Tokenize in
\* the other mode.
C20_SkipIsFilter ==
    stage # "lex" =>
        /\ [tokens |-> tokens, err |-> lexErr] = Tokenize(src, skip)
        /\ lexErr = Tokenize(src, ~skip).err
        /\ skip => tokens = significant(Tokenize(src, FALSE).tokens)
        /\ ~skip => significant(tokens) = Tokenize(src, TRUE).tokens

\* A Comment between a Whitespace and a LineTerminator was scanned.
C20_Witness ==
    /\ stage # "lex"
    /\ ~skip
    /\ lexErr = NoErr
    /\ typesOf(tokens) = <<"Whitespace", "Comment", "LineTerminator", "EOF">>
    /\ Len(Tokenize(src, TRUE).tokens) = 2

\* The result of scanning the Value of a token as an input of its own is
\* that token and EOF.
roundTrips(token) ==
    LET same(r) ==
            /\ r.err = NoErr
            /\ Len(r.tokens) = 2
            /\ r.tokens[1].Type = token.Type
            /\ r.tokens[1].Value = token.Value
            /\ r.tokens[2].Type = "EOF"
    IN  same(Tokenize(token.Value, FALSE))

\* C15: for every Name, Integer, Float and String token that Tokenize
\* produces, scanning the token's Value as an isolated input produces exactly
\* one token before EOF, of the same kind and with the same Value.
C15_LiteralRoundTrip ==
    \A i \in DOMAIN tokens :
        tokens[i].Type \in {"Name", "Integer", "Float", "String"} =>
            roundTrips(tokens[i])

\* The code points the eight escapes stand for.
standardEscape ==
    (Ch.b :> 8) @@ (Ch.t :> 9) @@ (Ch.n :> 10) @@ (Ch.f :> 12) @@ (Ch.r :> 13)
    @@ (Ch.quote :> 34) @@ (Ch.backslash :> 92) @@ (Ch.slash :> 47)

\* What the body of a String literal that starts at s[i] stands for, by the
\* rules for escapes: the code points up to the closing quote, or no value.
RECURSIVE decodedFrom(_, _)
decodedFrom(s, i) ==
    LET none == [ok |-> FALSE, value |-> <<>>]
        cons(r, rest) == IF rest.ok THEN [ok |-> TRUE, value |-> <<r>> \o rest.value]
                         ELSE none
        hex(k) == hexDigitValue(s[i + k])
    IN  IF i > Len(s) THEN none
        ELSE IF s[i] = Ch.quote THEN [ok |-> TRUE, value |-> <<>>]
        ELSE IF s[i] # Ch.backslash
        THEN (IF isStringCharacter(s[i]) THEN cons(s[i], decodedFrom(s, i + 1)) ELSE none)
        ELSE IF i + 1 > Len(s) THEN none
        ELSE IF s[i + 1] = Ch.u
        THEN (IF /\ i + 5 <= Len(s)
                 /\ \A k \in 2..5 : isHexidecimalCharacter(s[i + k])
              THEN cons(4096 * hex(2) + 256 * hex(3) + 16 * hex(4) + hex(5),
                        decodedFrom(s, i + 6))
              ELSE none)
        ELSE IF s[i + 1] \in DOMAIN standardEscape
        THEN cons(standardEscape[s[i + 1]], decodedFrom(s, i + 2))
        ELSE none

\* C16: inside a String, \u followed by four hexadecimal digits decodes to
\* the code point with that value, each of the escapes b t n f r " \ /
\* decodes to its standard code point, and every other case is an error: an
\* escape character outside that set, \u followed by a code point that is no
\* hexadecimal digit or by fewer than four digits, and an input that ends
\* right after the backslash.
C16_StringEscapes ==
    (stage # "lex" /\ src \in StringTexts) =>
        IF decodedFrom(src, 2).ok
        THEN /\ Len(tokens) >= 1
             /\ tokens[1].Type = "String"
             /\ tokens[1].Value = decodedFrom(src, 2).value
        ELSE /\ lexErr # NoErr
             /\ tokens = <<>>

\* The source begins with a number: a digit, or a - and a digit.
startsWithNumber ==
    /\ Len(src) >= 1
    /\ \/ isIntegerCharacter(src[1])
       \/ src[1] = Ch.minus /\ Len(src) >= 2 /\ isIntegerCharacter(src[2])

isDigitAt(i) == i <= Len(src) /\ isIntegerCharacter(src[i])
isAt(i, set) == i <= Len(src) /\ src[i] \in set

\* The first index from i on that holds no digit.
digitsEnd(i) == CHOOSE j \in i..(Len(src) + 1) :
                    /\ ~isDigitAt(j)
                    /\ \A k \in i..(j - 1) : isDigitAt(k)

\* The shape of the number the source begins with: where its integer part
\* ends (-0 is an integer part of its own), whether a . and an exponent
\* indicator follow, where the digits are to begin and where they end.
integerEnd ==
    IF src[1] = Ch.minus /\ src[2] = Ch.d0 THEN 3
    ELSE digitsEnd(IF src[1] = Ch.minus THEN 2 ELSE 1)
hasDot == isAt(integerEnd, {Ch.dot})
fractionEnd == IF hasDot THEN digitsEnd(integerEnd + 1) ELSE integerEnd
dotWithoutDigit == hasDot /\ ~isDigitAt(integerEnd + 1)
hasExponent == ~dotWithoutDigit /\ isAt(fractionEnd, {Ch.e, Ch.E})
exponentDigits ==
    IF isAt(fractionEnd + 1, {Ch.plus, Ch.minus}) THEN fractionEnd + 2 ELSE fractionEnd + 1
exponentWithoutDigit == hasExponent /\ ~isDigitAt(exponentDigits)
numberEnd == IF hasExponent THEN digitsEnd(exponentDigits) ELSE fractionEnd

\* C21: a number token is a Float exactly when it has a fractional part or an
\* exponent part and an Integer otherwise; a . not followed by a digit, and
\* an exponent indicator with its optional sign not followed by a digit, make
\* Tokenize return an error, at the end of the input and before a code point
\* that is no digit.
C21_FloatOrInteger ==
    /\ \A i \in DOMAIN tokens :
            /\ tokens[i].Type = "Float" =>
                    \E k \in DOMAIN tokens[i].Value :
                        tokens[i].Value[k] \in {Ch.dot, Ch.e, Ch.E}
            /\ tokens[i].Type = "Integer" =>
                    \A k \in DOMAIN tokens[i].Value :
                        tokens[i].Value[k] \notin {Ch.dot, Ch.e, Ch.E}
    /\ (stage # "lex" /\ startsWithNumber) =>
            IF dotWithoutDigit \/ exponentWithoutDigit
            THEN lexErr # NoErr /\ tokens = <<>>
            ELSE /\ Len(tokens) >= 1
                 /\ tokens[1].Type = IF hasDot \/ hasExponent THEN "Float" ELSE "Integer"
                 /\ tokens[1].Value = SubSeq(src, 1, numberEnd - 1)

\* 1.5e-10 was scanned as one Float token.
C21_Witness ==
    /\ stage # "lex"
    /\ src = <<Ch.d1, Ch.dot, Ch.d5, Ch.e, Ch.minus, Ch.d1, Ch.d0>>
    /\ lexErr = NoErr
    /\ tokens[1].Type = "Float"
    /\ tokens[1].Value = src

\* What is wrong with a Union of the schema s: it has no member, it lists a
\* name no declaration has, it lists a declared type that is no Object, it
\* lists a member twice.
declaredNames(s) ==
    DOMAIN s.scalars \cup DOMAIN s.enums \cup DOMAIN s.inputs
    \cup DOMAIN s.interfaces \cup DOMAIN s.objects \cup DOMAIN s.unions
memberNames(u) == {u.Types[i] : i \in DOMAIN u.Types}
unionProblems(s, u) ==
    {m \in {"Union declared without any member types defined"} : u.Types = <<>>}
    \cup {m \in {"Union declared with unknown type"} :
            memberNames(u) \ declaredNames(s) # {}}
    \cup {m \in {"Union declared with member type. Union members must be Objects"} :
            (memberNames(u) \cap declaredNames(s)) \ DOMAIN s.objects # {}}
    \cup {m \in {"Union declared duplicate type"} :
            Cardinality(memberNames(u)) < Len(u.Types)}

\* C22: Build fails for a Union that has no member, that lists a name no
\* declaration has, that lists a declared type which is not an Object, or
\* that lists a member twice, and the error it raises for a Union is one of
\* the problems that Union has; the members are looked up in the declarations
\* the builder holds when Build runs, whatever the order they came in.
C22_UnionMembers ==
    /\ outcome = "schema" =>
            \A n \in DOMAIN theBuilder.schema.unions :
                unionProblems(theBuilder.schema, theBuilder.schema.unions[n]) = {}
    /\ (outcome = "buildPanic" /\ panicErr.kind = "Union") =>
            panicErr.msg \in unionProblems(theBuilder.schema,
                                           theBuilder.schema.unions[panicErr.name])
    /\ (/\ outcome = "buildPanic"
        /\ invalidKinds(theBuilder.schema) \cap {"Scalar", "Enum", "Interface", "Object"} = {}
        /\ \E n \in DOMAIN theBuilder.schema.unions :
                unionProblems(theBuilder.schema, theBuilder.schema.unions[n]) # {}) =>
            panicErr.kind = "Union"

\* Build has panicked for a Union whose member is declared as an Interface.
C22_Witness ==
    /\ outcome = "buildPanic"
    /\ panicErr.kind = "Union"
    /\ panicErr.msg = "Union declared with member type. Union members must be Objects"
    /\ "D" \in DOMAIN theBuilder.schema.interfaces
    /\ theBuilder.schema.unions["U"].Types = <<"D">>

\* C23: Build terminates for every finite set of declarations: every call of
\* Build returns the Schema or raises a validation error, also when a field
\* or an argument has a list type nested two or more levels deep.
C23_BuildTerminates == outcome \in {"new", "declared", "declarePanic", "schema", "buildPanic"}

\* C24: Build is deterministic: for one chain of declarations every run of
\* Build has the same outcome and, when it fails, raises the same validation
\* error, so the error a Build has raised is the only one it can raise for
\* the declarations of the builder; also when two declarations of one kind
\* are both invalid.
C24_BuildDeterministic ==
    outcome \in {"buildPanic", "hang"} => Build(theBuilder).errors = {panicErr}

\* C25: parseValue on an OpenBrace token parses a mapping of Name: Value
\* pairs: an object value with one pair, hence pairwise distinct keys, parses
\* without error, and an object value that repeats a key is rejected with a
\* parse error.
C25_ObjectValue ==
    stage \in {"parsed", "done"} =>
        /\ src = QueryObjectDefaultText => parseErr = NoErr
        /\ (src = QueryObjectRepeatedKeyText /\ skip) => parseErr # NoErr

\* C26: inside a String every code point from U+0020 on other than the
\* double quote and the backslash, and the tab, is accepted as a string
\* character and copied into the token's Value, the code points above U+FFFF
\* included.
C26_StringCharacters ==
    (/\ stage # "lex"
     /\ Len(src) = 3 /\ src[1] = Ch.quote /\ src[3] = Ch.quote
     /\ \/ src[2] = Ch.tab
        \/ src[2] >= Ch.sp /\ src[2] \notin {Ch.quote, Ch.backslash}) =>
        /\ lexErr = NoErr
        /\ tokens[1].Type = "String"
        /\ tokens[1].Value = <<src[2]>>

\* C27: the scanner needs one code point of pushback: every unreadRune comes
\* directly after a successful readRune, never two without a readRune in
\* between, and puts the column back to the value it had before that
\* readRune.
C27_OnePushback == lx.pushbackOk

\* A name before a brace was scanned: consumeAll has read the brace and put
\* it back.
C27_Witness ==
    /\ stage # "lex"
    /\ lexErr = NoErr
    /\ ~skip
    /\ typesOf(tokens) = <<"Name", "OpenBrace", "EOF">>
    /\ lx.unreads >= 1
    /\ lx.pushbackOk

\* The key sets of the six collections of a schema.
keySets(s) ==
    <<DOMAIN s.scalars, DOMAIN s.enums, DOMAIN s.inputs,
      DOMAIN s.interfaces, DOMAIN s.objects, DOMAIN s.unions>>

namesConsistent ==
    /\ theBuilder.declaredTypeNames = declaredNames(theBuilder.schema)
    /\ \A i, j \in 1..6 :
            i # j => keySets(theBuilder.schema)[i] \cap keySets(theBuilder.schema)[j] = {}

\* C28: after every sequence of Declare calls the builder's set of declared
\* names is the union of the key sets of its six collections and no name is
\* a key of two collections; a Declare call that fails, for an empty, an
\* invalid or a duplicate name, changes neither the set nor any collection.
C28_DeclaredNames ==
    /\ []namesConsistent
    /\ [][outcome' = "declarePanic" => theBuilder' = theBuilder]_vars

\* Declare calls have failed for a duplicate name after two that succeeded.
C28_Witness ==
    /\ outcome = "declarePanic"
    /\ panicErr.msg = duplicateNameError
    /\ numCalls = 3
    /\ Cardinality(theBuilder.declaredTypeNames)
            = Cardinality(NewSchema.declaredTypeNames) + 2
    /\ namesConsistent

\* One iteration of each parser loop, started with the cursor at q.
definitionIteration(toks, q) ==
    LET definition(n) ==
            IF parserPeek(toks, q).Value = FragmentWord
            THEN parsed(n)
            ELSE parseOperation(toks, n)
    IN  then(accept(toks, q, "Name", {QueryWord, MutationWord, FragmentWord}), definition)

objectIteration(toks, q) ==
    LET colon(n) == expect(toks, n, "Colon")
        value(n) == parseValue(toks, n)
    IN  then(then(expect(toks, q, "Name"), colon), value)

\* r has raised, or it has moved the cursor forward from q.
raisedOrConsumed(r, q) == r.err # NoErr \/ r.pos > q

\* r has left the cursor at or after q, and on a token of toks.
cursorFrom(toks, r, q) == r.pos \in q..(Len(toks) - 1)

loopsConsume(toks) ==
    \A q \in 0..(Len(toks) - 1) :
        /\ parserPeek(toks, q).Type # "EOF"
                => raisedOrConsumed(definitionIteration(toks, q), q)
        /\ parserPeek(toks, q).Type = "Dollar"
                => raisedOrConsumed(parseVariableDefinition(toks, q), q)
        /\ parserPeek(toks, q).Type # "ClosedBracket"
                => raisedOrConsumed(parseValue(toks, q), q)
        /\ parserPeek(toks, q).Type # "ClosedBrace"
                => raisedOrConsumed(objectIteration(toks, q), q)
        /\ parserPeek(toks, q).Type = "OpenBracket"
                => raisedOrConsumed(expect(toks, q, "OpenBracket"), q)

cursorMonotone(toks) ==
    \A q \in 0..(Len(toks) - 1) :
        /\ cursorFrom(toks, parseDefinitions(toks, q), q)
        /\ cursorFrom(toks, parseVariableDefinition(toks, q), q)
        /\ cursorFrom(toks, parseValue(toks, q), q)
        /\ cursorFrom(toks, parseType(toks, q), q)
        /\ cursorFrom(toks, parseSelectionSet(toks, q), q)

\* C29: parse returns for every token sequence Tokenize hands it (non-empty,
\* ending in EOF): the cursor ends on a token of the sequence, every
\* iteration of the definition, variable definition, list value, object
\* value and nested list type loops raises or moves the cursor forward, and
\* no parse function moves the cursor back or past the last token.
C29_ParseTerminates ==
    stage \in {"parsed", "done"} =>
        /\ tokens # <<>>
        /\ tokens[Len(tokens)].Type = "EOF"
        /\ parse(tokens).pos \in 0..(Len(tokens) - 1)
        /\ parse(tokens).err = parseErr
        /\ loopsConsume(tokens)
        /\ cursorMonotone(tokens)

\* parse has accepted two definitions, a list of lists as type and a list
\* value of two elements, and left the cursor on the EOF token.
C29_Witness ==
    /\ stage = "parsed"
    /\ src = QueryNestedListText
    /\ parseErr = NoErr
    /\ parse(tokens).pos = Len(tokens) - 1
    /\ Cardinality({i \in 1..Len(tokens) : tokens[i].Type = "OpenBracket"}) = 4

\* The document with nothing selected by its mutations and subscriptions.
withoutOtherSelections(document) ==
    [document EXCEPT !.Operations =
        [i \in DOMAIN document.Operations |->
            IF document.Operations[i].Type = "query"
            THEN document.Operations[i]
            ELSE [document.Operations[i] EXCEPT !.SelectionSet = EmptySelectionSet]]]

onlyOtherOperations ==
    /\ theDocument.Fragments = <<>>
    /\ \A i \in DOMAIN theDocument.Operations : theDocument.Operations[i].Type # "query"

\* C30: validate looks at the selection set of an operation only when the
\* operation's type is query: what a mutation or a subscription selects has
\* no influence on the result, and a document of mutations and subscriptions
\* alone gets operation-name errors and no others.
C30_QueryOnlySelections ==
    stage = "done" =>
        /\ valResult = validate(theSchema, withoutOtherSelections(theDocument))
        /\ onlyOtherOperations =>
                /\ ~valResult.panicked
                /\ \A i \in DOMAIN valResult.errors :
                        valResult.errors[i] \in {"Lone Anonymous Operation error",
                                                 "Operation Name Uniqueness error"}

\* validate has returned without an error for a mutation and a subscription
\* that select fields their schema does not have.
C30_Witness ==
    /\ stage = "done"
    /\ theDocument = Document(<<Operation("mutation", "Q", SelectDogNickname),
                                Operation("subscription", "S", SelectTwoProblems)>>, <<>>)
    /\ validate(theSchema, QueryDocument(SelectDogNickname)).errors # <<>>
    /\ valResult.errors = <<>>
    /\ ~valResult.panicked

====
